---- MODULE Spec2Model ----
(***************************************************************************)
(* GestureRecognitionService (gesture-recognition-service.ts): the         *)
(* temporal gesture pipeline (reference points, EMA smoothing, sliding     *)
(* buffer, majority filter, block segmentation, suffix matcher, emitter),  *)
(* its two subscriber registries and its processing loop.                  *)
(*                                                                         *)
(* Numbers.  Landmark coordinates are normalised reals in [0,1]; they are  *)
(* carried as integers in units of 1/20 (0.05), so 0.20 is 4, 0.35 is 7,   *)
(* the swipe threshold 0.1 is 2 and the point offset 0.3 is 6.  emaAlpha   *)
(* is carried in tenths (0.3 is 3, 1.0 is 10) and the EMA result is        *)
(* rounded to the nearest grid point, as a double rounds to the nearest    *)
(* representable value.  Landmark.z is optional and read by no decision,   *)
(* and BufferEntry.timestamp is written and never read: both are left out. *)
(* Arrays are 1-based sequences; Block.start and Block.end keep the        *)
(* source's 0-based buffer indices.                                        *)
(***************************************************************************)
EXTENDS Integers, Sequences, FiniteSets, TLC

\* ------------------------------------------------------------- bounds
\* Largest bufferSize a constructor or an options update may configure.
MaxBuf == 4

\* Longest buffer handed to a private method called on its own.
MaxLen == 4

\* ---------------------------------------------------------- constants
\* deltaX > 0.1 / deltaX < -0.1, in units of 1/20.
SwipeThreshold == 2
\* y: smoothedPalmCenter.y - 0.3, in units of 1/20.
PointYOffset == 6
\* Constructor defaults (emaAlpha in tenths).
DefaultBufferSize == 30
DefaultEmaAlpha == 3
DefaultMajorityWindowSize == 5
DefaultMaxGapSize == 2
DefaultNumHands == 2
\* Denominator of emaAlpha: alpha = emaAlpha / AlphaOne, so AlphaOne is 1.0.
AlphaOne == 10

\* --------------------------------------------------------- JS values
\* null / undefined for object-valued fields (Landmark, RecognizedGesture).
null == [null |-> TRUE]
\* null for a block's or a smoothed label's gesture (string | null).
NullLabel == "null"
\* undefined option field.
undefined == -1

Min(a, b) == IF a < b THEN a ELSE b
Max(a, b) == IF a > b THEN a ELSE b

Last(s) == s[Len(s)]

\* The elements Array.prototype.shift() keeps.
Tail1(s) == SubSeq(s, 2, Len(s))

\* ------------------------------------------------------ EMA smoother
\* alpha * c + (1 - alpha) * p on one axis, rounded to the nearest grid point.
EmaAxis(alpha, c, p) ==
    ((2 * (alpha * c + (AlphaOne - alpha) * p)) + AlphaOne) \div (2 * AlphaOne)

\* applyEMA blending a first sample with the origin.
applyEMAWithoutFirstSample(alpha, current, previous) ==
    IF current = null THEN null
    ELSE [x |-> EmaAxis(alpha, current.x, IF previous = null THEN 0 ELSE previous.x),
          y |-> EmaAxis(alpha, current.y, IF previous = null THEN 0 ELSE previous.y)]

applyEMA(alpha, current, previous) ==
    IF current = null THEN null
    ELSE IF previous = null THEN current
    ELSE [x |-> EmaAxis(alpha, current.x, previous.x),
          y |-> EmaAxis(alpha, current.y, previous.y)]

\* ------------------------------------------- reference point extractor
\* landmarks is a function on 0..(length-1); landmarks[index] || null.
getPoint(landmarks, index) ==
    IF index \in DOMAIN landmarks THEN landmarks[index] ELSE null

RECURSIVE SumAxis(_, _)
SumAxis(points, axis) ==
    IF points = <<>> THEN 0
    ELSE (IF axis = "x" THEN points[1].x ELSE points[1].y) + SumAxis(Tail1(points), axis)

computeReferencePoints(landmarks) ==
    LET wrist == getPoint(landmarks, 0)
        bases == SelectSeq(<<getPoint(landmarks, 0), getPoint(landmarks, 5),
                             getPoint(landmarks, 9), getPoint(landmarks, 13),
                             getPoint(landmarks, 17)>>,
                           LAMBDA p : p # null)
        palmCenter ==
            IF wrist # null /\ Len(bases) > 0
            THEN [x |-> SumAxis(bases, "x") \div Len(bases),
                  y |-> SumAxis(bases, "y") \div Len(bases)]
            ELSE null
    IN  [wrist |-> wrist,
         palmCenter |-> palmCenter,
         thumbTip |-> getPoint(landmarks, 4),
         indexTip |-> getPoint(landmarks, 8),
         topGesture |-> null]

\* ---------------------------------------------------- majority filter
\* x === 'None' ? null : x: null and 'None' are the same label.
Normalized(gesture) == IF gesture = "None" THEN NullLabel ELSE gesture

\* buffer[j].topGesture?.categoryName || 'None'
EntryLabel(entry) ==
    IF entry.topGesture = null THEN "None"
    ELSE IF entry.topGesture.categoryName = "" THEN "None"
    ELSE entry.topGesture.categoryName

\* buffer[j].topGesture?.score || 0
EntryScore(entry) ==
    IF entry.topGesture = null THEN 0 ELSE entry.topGesture.score

\* Keys of labelCounts in Map insertion order: the labels of w, first seen first.
RECURSIVE FirstSeen(_, _)
FirstSeen(w, seen) ==
    IF w = <<>> THEN seen
    ELSE FirstSeen(Tail1(w),
                   IF \E k \in 1..Len(seen) : seen[k] = EntryLabel(w[1])
                   THEN seen ELSE Append(seen, EntryLabel(w[1])))

LabelCount(w, label) == Cardinality({k \in 1..Len(w) : EntryLabel(w[k]) = label})

RECURSIVE LabelScoreSum(_, _)
LabelScoreSum(w, label) ==
    IF w = <<>> THEN 0
    ELSE (IF EntryLabel(w[1]) = label THEN EntryScore(w[1]) ELSE 0)
         + LabelScoreSum(Tail1(w), label)

\* The loop over nonNoneLabels: the first label whose average score is strictly
\* above every earlier one's (and above 0) wins; averages are compared as
\* sum/count by cross-multiplication.
RECURSIVE BestByAverage(_, _, _, _, _)
BestByAverage(w, labels, bestLabel, bestSum, bestLen) ==
    IF labels = <<>> THEN bestLabel
    ELSE LET l == labels[1]
             s == LabelScoreSum(w, l)
             n == LabelCount(w, l)
         IN  IF s * bestLen > bestSum * n
             THEN BestByAverage(w, Tail1(labels), l, s, n)
             ELSE BestByAverage(w, Tail1(labels), bestLabel, bestSum, bestLen)

\* The largest value of labelCounts.
RECURSIVE MaxCountOf(_, _, _)
MaxCountOf(w, keys, maxCount) ==
    IF keys = <<>> THEN maxCount
    ELSE MaxCountOf(w, Tail1(keys), Max(maxCount, LabelCount(w, keys[1])))

\* A tie handling that takes the label seen first.
MajorityLabelFirstSeen(w, tieLabels, nonNoneLabels) == tieLabels[1]

\* A tie handling that compares the average scores of all tied labels, 'None' included.
MajorityLabelByAverageOfTies(w, tieLabels, nonNoneLabels) ==
    IF Len(tieLabels) > 1
    THEN BestByAverage(w, tieLabels, tieLabels[1], 0, 1)
    ELSE tieLabels[1]

\* The tie handling: prefer a non-None label, the one with the highest average score.
MajorityLabel(w, tieLabels, nonNoneLabels) ==
    IF Len(tieLabels) > 1
    THEN IF Len(nonNoneLabels) > 0
         THEN BestByAverage(w, nonNoneLabels, nonNoneLabels[1], 0, 1)
         ELSE tieLabels[1]
    ELSE tieLabels[1]

\* tieLabels after the loop over labelCounts.entries(): the labels that reach maxCount,
\* in insertion order (a higher count empties the list, an equal one is pushed).
TieLabels(w, keys, maxCount) == SelectSeq(keys, LAMBDA l : LabelCount(w, l) = maxCount)

\* SmoothedLabel without the conversion of 'None' to null.
SmoothedLabelUnnormalized(w, maxCount, tieLabels) ==
    [label |-> MajorityLabel(w, tieLabels, SelectSeq(tieLabels, LAMBDA l : l # "None")),
     count |-> maxCount,
     windowSize |-> Len(w)]

SmoothedLabel(w, maxCount, tieLabels) ==
    [label |-> Normalized(MajorityLabel(w, tieLabels,
                                        SelectSeq(tieLabels, LAMBDA l : l # "None"))),
     count |-> maxCount,
     windowSize |-> Len(w)]

MajorityOfKeys(w, keys, maxCount) == SmoothedLabel(w, maxCount, TieLabels(w, keys, maxCount))

\* One iteration of the loop over i: the smoothed label of the window w, with its
\* confidence maxCount / windowSize kept as the pair count, windowSize.
MajorityOfWindowKeys(w, keys) == MajorityOfKeys(w, keys, MaxCountOf(w, keys, 0))

MajorityOfWindow(w) == MajorityOfWindowKeys(w, FirstSeen(w, <<>>))

\* A filter whose confidence is the count over the configured window size.
applySlidingMajorityFilterConfiguredSize(buffer, majorityWindowSize) ==
    LET len == Len(buffer)
        halfWindow == majorityWindowSize \div 2
    IN  [i \in 1..len |->
            LET start == Max(0, (i - 1) - halfWindow)
                end == Min(len - 1, (i - 1) + halfWindow)
            IN  [MajorityOfWindow(SubSeq(buffer, start + 1, end + 1))
                    EXCEPT !.windowSize = majorityWindowSize]]

\* A filter with output for the indices whose window is complete only.
applySlidingMajorityFilterFullWindows(buffer, majorityWindowSize) ==
    LET len == Len(buffer)
        halfWindow == majorityWindowSize \div 2
    IN  [i \in 1..Max(0, len - 2 * halfWindow) |->
            MajorityOfWindow(SubSeq(buffer, i, i + 2 * halfWindow))]

applySlidingMajorityFilter(buffer, majorityWindowSize) ==
    LET len == Len(buffer)
        halfWindow == majorityWindowSize \div 2
    IN  [i \in 1..len |->
            LET start == Max(0, (i - 1) - halfWindow)
                end == Min(len - 1, (i - 1) + halfWindow)
            IN  MajorityOfWindow(SubSeq(buffer, start + 1, end + 1))]

\* --------------------------------------------------------- segmenter
\* smoothedLabels[i]?.label ?? null
RECURSIVE CompressFrom(_, _, _, _, _)
CompressFrom(smoothedLabels, i, currentGesture, startIndex, blocks) ==
    IF i >= Len(smoothedLabels)
    THEN Append(blocks, [gesture |-> currentGesture, start |-> startIndex,
                         end |-> Len(smoothedLabels) - 1])
    ELSE LET label == smoothedLabels[i + 1].label
         IN  IF label # currentGesture
             THEN CompressFrom(smoothedLabels, i + 1, label, i,
                               Append(blocks, [gesture |-> currentGesture,
                                               start |-> startIndex, end |-> i - 1]))
             ELSE CompressFrom(smoothedLabels, i + 1, currentGesture, startIndex, blocks)

\* compressSmoothedLabelsToBlocks without the push of the last block.
compressSmoothedLabelsToBlocksWithoutLast(smoothedLabels) ==
    IF Len(smoothedLabels) = 0 THEN <<>>
    ELSE LET all == CompressFrom(smoothedLabels, 1, smoothedLabels[1].label, 0, <<>>)
         IN  SubSeq(all, 1, Len(all) - 1)

compressSmoothedLabelsToBlocks(smoothedLabels) ==
    IF Len(smoothedLabels) = 0 THEN <<>>
    ELSE CompressFrom(smoothedLabels, 1, smoothedLabels[1].label, 0, <<>>)

isNonNone(gesture) == gesture # NullLabel /\ gesture # "None"

\* The for loop of mergeTinyGaps from index i (0-based) with the blocks merged so far.
RECURSIVE MergeTinyGapsFrom(_, _, _, _)
MergeTinyGapsFrom(blocks, i, merged, maxGapSize) ==
    IF i >= Len(blocks) THEN merged
    ELSE LET currentBlock == blocks[i + 1]
             blockLength == currentBlock.end - currentBlock.start + 1
         IN  IF (currentBlock.gesture = NullLabel \/ currentBlock.gesture = "None")
                /\ blockLength <= maxGapSize
             THEN IF Len(merged) > 0 /\ isNonNone(Last(merged).gesture)
                  THEN MergeTinyGapsFrom(blocks, i + 1,
                           [merged EXCEPT ![Len(merged)].end = currentBlock.end],
                           maxGapSize)
                  ELSE IF i + 1 < Len(blocks) /\ isNonNone(blocks[i + 2].gesture)
                  THEN MergeTinyGapsFrom(blocks, i + 2,
                           Append(merged, [blocks[i + 2] EXCEPT !.start = currentBlock.start]),
                           maxGapSize)
                  ELSE MergeTinyGapsFrom(blocks, i + 1, merged, maxGapSize)
             ELSE MergeTinyGapsFrom(blocks, i + 1, Append(merged, currentBlock), maxGapSize)

\* mergeTinyGaps treating a null block of any length as a gap.
mergeTinyGapsAnyLength(blocks, maxGapSize) ==
    IF Len(blocks) = 0 THEN <<>>
    ELSE MergeTinyGapsFrom(blocks, 0, <<>>, maxGapSize + Len(blocks) + MaxLen)

\* The loop of a mergeTinyGaps that tries the following block before the block merged last.
RECURSIVE MergeTinyGapsNextFirstFrom(_, _, _, _)
MergeTinyGapsNextFirstFrom(blocks, i, merged, maxGapSize) ==
    IF i >= Len(blocks) THEN merged
    ELSE LET currentBlock == blocks[i + 1]
             blockLength == currentBlock.end - currentBlock.start + 1
         IN  IF (currentBlock.gesture = NullLabel \/ currentBlock.gesture = "None")
                /\ blockLength <= maxGapSize
             THEN IF i + 1 < Len(blocks) /\ isNonNone(blocks[i + 2].gesture)
                  THEN MergeTinyGapsNextFirstFrom(blocks, i + 2,
                           Append(merged, [blocks[i + 2] EXCEPT !.start = currentBlock.start]),
                           maxGapSize)
                  ELSE IF Len(merged) > 0 /\ isNonNone(Last(merged).gesture)
                  THEN MergeTinyGapsNextFirstFrom(blocks, i + 1,
                           [merged EXCEPT ![Len(merged)].end = currentBlock.end],
                           maxGapSize)
                  ELSE MergeTinyGapsNextFirstFrom(blocks, i + 1, merged, maxGapSize)
             ELSE MergeTinyGapsNextFirstFrom(blocks, i + 1, Append(merged, currentBlock),
                                             maxGapSize)

mergeTinyGapsNextFirst(blocks, maxGapSize) ==
    IF Len(blocks) = 0 THEN <<>> ELSE MergeTinyGapsNextFirstFrom(blocks, 0, <<>>, maxGapSize)

\* mergeTinyGaps removing every gap without merging it into a neighbour.
mergeTinyGapsDropsGaps(blocks, maxGapSize) ==
    SelectSeq(blocks, LAMBDA b : ~(~isNonNone(b.gesture) /\ b.end - b.start + 1 <= maxGapSize))

mergeTinyGaps(blocks, maxGapSize) ==
    IF Len(blocks) = 0 THEN <<>> ELSE MergeTinyGapsFrom(blocks, 0, <<>>, maxGapSize)

RECURSIVE MergeSameFrom(_, _, _, _)
MergeSameFrom(blocks, i, currentBlock, merged) ==
    IF i >= Len(blocks) THEN Append(merged, currentBlock)
    ELSE LET nextBlock == blocks[i + 1]
         IN  IF Normalized(currentBlock.gesture) = Normalized(nextBlock.gesture)
             THEN MergeSameFrom(blocks, i + 1,
                                [currentBlock EXCEPT !.end = nextBlock.end], merged)
             ELSE MergeSameFrom(blocks, i + 1, nextBlock, Append(merged, currentBlock))

\* mergeConsecutiveSameGestures leaving the blocks as they are.
mergeConsecutiveSameGesturesNothing(blocks) == blocks

mergeConsecutiveSameGestures(blocks) ==
    IF Len(blocks) = 0 THEN <<>> ELSE MergeSameFrom(blocks, 1, blocks[1], <<>>)

\* -------------------------------------------------- sequence matcher
\* matchGestureSequence comparing the sequence with the first blocks.
matchGestureSequenceFromHead(blocks, sequence) ==
    IF Len(blocks) = 0 \/ Len(sequence) = 0 THEN FALSE
    ELSE IF Len(blocks) < Len(sequence) THEN FALSE
    ELSE \A i \in 0..(Len(sequence) - 1) :
            Normalized(blocks[i + 1].gesture) = Normalized(sequence[i + 1])

matchGestureSequence(blocks, sequence) ==
    IF Len(blocks) = 0 \/ Len(sequence) = 0 THEN FALSE
    ELSE IF Len(blocks) < Len(sequence) THEN FALSE
    ELSE \A i \in 0..(Len(sequence) - 1) :
            LET blockIndex == Len(blocks) - (Len(sequence) - i)
            IN  Normalized(blocks[blockIndex + 1].gesture) = Normalized(sequence[i + 1])

SwipeSequence == <<"Open_Palm", "Closed_Fist">>
ClickSequence == <<"Pointing_Up", "Closed_Fist", "Pointing_Up">>

\* The blocks detectTemporalGesture matches against: filter, compress, two merges.
FinalBlocks(buffer, majorityWindowSize, maxGapSize) ==
    mergeConsecutiveSameGestures(
        mergeTinyGaps(
            compressSmoothedLabelsToBlocks(
                applySlidingMajorityFilter(buffer, majorityWindowSize)),
            maxGapSize))

\* SwipeOf with the comparisons deltaX >= 0.1 and deltaX <= -0.1.
SwipeOfInclusive(buffer, blocks) ==
    LET firstPalmCenter == buffer[Last(blocks).start + 1].palmCenter
        lastPalmCenter == Last(buffer).palmCenter
    IN  IF firstPalmCenter # null /\ lastPalmCenter # null
        THEN IF lastPalmCenter.x - firstPalmCenter.x >= SwipeThreshold THEN "swipe_left"
             ELSE IF lastPalmCenter.x - firstPalmCenter.x <= -SwipeThreshold
             THEN "swipe_right"
             ELSE NullLabel
        ELSE NullLabel

\* SwipeOf with the displacement measured from the last Open_Palm frame (the end of
\* the block before the Closed_Fist block).
SwipeOfFromOpenPalm(buffer, blocks) ==
    LET firstPalmCenter == buffer[blocks[Len(blocks) - 1].end + 1].palmCenter
        lastPalmCenter == Last(buffer).palmCenter
    IN  IF firstPalmCenter # null /\ lastPalmCenter # null
        THEN IF lastPalmCenter.x - firstPalmCenter.x > SwipeThreshold THEN "swipe_left"
             ELSE IF lastPalmCenter.x - firstPalmCenter.x < -SwipeThreshold
             THEN "swipe_right"
             ELSE NullLabel
        ELSE NullLabel

\* SwipeOf reading a missing palm centre as x = 0.
SwipeOfMissingAsOrigin(buffer, blocks) ==
    LET firstPalmCenter == buffer[Last(blocks).start + 1].palmCenter
        lastPalmCenter == Last(buffer).palmCenter
        firstX == IF firstPalmCenter = null THEN 0 ELSE firstPalmCenter.x
        lastX == IF lastPalmCenter = null THEN 0 ELSE lastPalmCenter.x
    IN  IF lastX - firstX > SwipeThreshold THEN "swipe_left"
        ELSE IF lastX - firstX < -SwipeThreshold THEN "swipe_right"
        ELSE NullLabel

\* The swipe branch: the gesture it returns, or null when it falls through.
SwipeOf(buffer, blocks) ==
    LET closedFistStartIndex == Last(blocks).start
        firstPalmCenter == buffer[closedFistStartIndex + 1].palmCenter
        lastPalmCenter == Last(buffer).palmCenter
    IN  IF firstPalmCenter # null /\ lastPalmCenter # null
        THEN LET deltaX == lastPalmCenter.x - firstPalmCenter.x
             IN  IF deltaX > SwipeThreshold THEN "swipe_left"
                 ELSE IF deltaX < -SwipeThreshold THEN "swipe_right"
                 ELSE NullLabel
        ELSE NullLabel

\* DetectInBlocks with a click signature that lacks its first Pointing_Up.
DetectInBlocksShortClick(buffer, blocks) ==
    IF matchGestureSequence(blocks, SwipeSequence) /\ SwipeOf(buffer, blocks) # NullLabel
    THEN SwipeOf(buffer, blocks)
    ELSE IF matchGestureSequence(blocks, <<"Closed_Fist", "Pointing_Up">>) THEN "click"
    ELSE NullLabel

\* DetectInBlocks reporting a click for a swipe signature without displacement.
DetectInBlocksClickOnFallThrough(buffer, blocks) ==
    IF matchGestureSequence(blocks, SwipeSequence)
    THEN IF SwipeOf(buffer, blocks) # NullLabel THEN SwipeOf(buffer, blocks) ELSE "click"
    ELSE IF matchGestureSequence(blocks, ClickSequence) THEN "click"
    ELSE NullLabel

\* The two signature tests of detectTemporalGesture on the final blocks.
DetectInBlocks(buffer, blocks) ==
    IF matchGestureSequence(blocks, SwipeSequence) /\ SwipeOf(buffer, blocks) # NullLabel
    THEN SwipeOf(buffer, blocks)
    ELSE IF matchGestureSequence(blocks, ClickSequence) THEN "click"
    ELSE NullLabel

\* The gesture of the TemporalGestureResult returned, NullLabel for null.
detectTemporalGesture(buffer, majorityWindowSize, maxGapSize) ==
    IF Len(buffer) = 0 THEN NullLabel
    ELSE DetectInBlocks(buffer, FinalBlocks(buffer, majorityWindowSize, maxGapSize))

\* ------------------------------------------------------------- state
VARIABLES
    isInitialized,              \* private isInitialized
    isInitializing,             \* private isInitializing
    isProcessing,               \* private isProcessing
    gestureRecognizer,          \* TRUE once this.gestureRecognizer is set
    videoRef,                   \* TRUE once this.videoRef.current is set
    initPc,                     \* where the pending initialize() call is suspended
    animationFrameRef,          \* TRUE while a requestAnimationFrame callback is pending
    lastVideoTimeRef,           \* -1, or 0 for the currentTime of the last processed frame
    subscribers,                \* Set<GestureFrameCallback>, in insertion order
    temporalGestureSubscribers, \* Set<TemporalGestureCallback>, in insertion order
    buffer,
    bufferSize,
    emaAlpha,
    majorityWindowSize,
    maxGapSize,
    smoothed,                   \* smoothedWrist, smoothedPalmCenter, smoothedThumbTip, smoothedIndexTip
    lastDetectedGesture,
    currentFrameData,
    \* What the last step did, as its callers and callbacks see it:
    processed,                  \* the step ran processResult on a new frame
    emitted,                    \* the TemporalGestureResults it dispatched, in order
    calls,                      \* the callback invocations it made, in order: <<callback, argument>>
    cleared,                    \* the buffer contents it discarded with this.buffer = []
    \* History:
    pointRun,                   \* length of the current run of pointing frames begun on an empty buffer
    upOnly,                     \* every frame processed since the buffer was last empty had top label Pointing_Up
    discreteLast,               \* the frame processed last emitted a swipe or a click
    unsubscribed,               \* callbacks whose unsubscribe function was called, not subscribed again since
    registeredBefore,           \* <<a, b>>: a and b are in one registry and a was registered before b
    \* The singleton and its recognizer configuration:
    instance,                   \* TRUE while GestureRecognitionService.instance is this service
    modelAssetPath,
    numHands,
    requested,                  \* the options of the last getInstance call that found this service
    \* Initialization and loop bookkeeping:
    initFailure,                \* what made the last finished initialize() fail: "none", "model", "webcam"
    initsInProgress,            \* initialize() calls that have begun and not returned
    loops,                      \* chains of requestAnimationFrame callbacks alive
    iteration,                  \* the processFrame call of the step: "none", or "stopped", "new", "same", "throws"
    \* A private method called on its own (specification SpecFunctions):
    args,                       \* the method and its arguments
    returned                    \* [done |-> FALSE], or its return value once it has returned

serviceVars == <<isInitialized, isInitializing, isProcessing, gestureRecognizer, videoRef,
                 initPc, animationFrameRef, lastVideoTimeRef>>
registryVars == <<subscribers, temporalGestureSubscribers>>
optionVars == <<bufferSize, emaAlpha, majorityWindowSize, maxGapSize>>
pipelineVars == <<buffer, smoothed, lastDetectedGesture, currentFrameData>>
stepVars == <<processed, emitted, calls, cleared>>
historyVars == <<pointRun, upOnly, discreteLast, unsubscribed, registeredBefore>>
singletonVars == <<instance, modelAssetPath, numHands, requested>>
initVars == <<initFailure, initsInProgress>>
callVars == <<args, returned>>
serviceState == <<serviceVars, registryVars, optionVars, pipelineVars, stepVars, historyVars,
                  singletonVars, initVars, loops, iteration>>
vars == <<serviceVars, registryVars, optionVars, pipelineVars, stepVars, historyVars,
          singletonVars, initVars, loops, iteration, callVars>>

\* ------------------------------------------------------------ inputs
\* Longest tracked run of pointing frames.
MaxRun == 5

TemporalCallbacks == {"t1", "t2"}
FrameCallbacks == {"f1", "f2"}
Callbacks == TemporalCallbacks \cup FrameCallbacks
\* The callbacks that throw whenever they are invoked.
Throwing == {"t1", "f1"}

\* A detected hand: 21 landmarks; here all at one position.
Hand(x, y) == [i \in 0..20 |-> [x |-> x, y |-> y]]
NoLandmarks == <<>>

Gesture(name, score) == [categoryName |-> name, score |-> score]

\* GestureRecognizerResult: landmarks per hand, ranked gestures per hand (scores in tenths).
Result(hands, gestures) == [landmarks |-> hands, gestures |-> gestures]

\* One hand at (x, 10) classified as name.
OneHand(name, score, x) == Result(<<Hand(x, 10)>>, <<<<Gesture(name, score)>>>>)

NoHand == Result(<<>>, <<>>)

\* Recognizer results of specification Spec.
Results ==
    {NoHand,
     OneHand("Open_Palm", 9, 4),
     OneHand("Closed_Fist", 8, 4),
     OneHand("Closed_Fist", 8, 7),
     OneHand("Pointing_Up", 9, 4),
     \* two hands: the second one's gesture is the top gesture, the first one's
     \* landmarks are the reference points
     Result(<<Hand(4, 10), Hand(7, 10)>>,
            <<<<Gesture("Open_Palm", 5)>>, <<Gesture("Pointing_Up", 9)>>>>)}

ConstructorOptions ==
    [bufferSize : {3, MaxBuf}, emaAlpha : {AlphaOne},
     majorityWindowSize : {3}, maxGapSize : {undefined},
     modelAssetPath : {"undefined"}, numHands : {undefined}]

OptionUpdates ==
    {[bufferSize |-> b, emaAlpha |-> undefined, majorityWindowSize |-> undefined,
      maxGapSize |-> undefined] : b \in {1, MaxBuf}}

\* Recognizer results, options and callbacks of specification SpecRegistry.
RegistryResults ==
    {OneHand("Pointing_Up", 9, 4),
     OneHand("Closed_Fist", 8, 4),
     Result(<<>>, <<<<Gesture("Pointing_Up", 9)>>>>)}

RegistryConstructorOptions ==
    [bufferSize : {MaxBuf}, emaAlpha : {AlphaOne},
     majorityWindowSize : {3}, maxGapSize : {undefined},
     modelAssetPath : {"undefined"}, numHands : {undefined}]

RegistryOptionUpdates ==
    {[bufferSize |-> undefined, emaAlpha |-> undefined, majorityWindowSize |-> 5,
      maxGapSize |-> 1]}

\* ------------------------------------------------------- constructor
\* options.x || default (0 is falsy) and options.x !== undefined ? options.x : default
OrDefault(value, default) == IF value = undefined \/ value = 0 THEN default ELSE value
DefinedOrDefault(value, default) == IF value = undefined THEN default ELSE value

\* options.modelAssetPath || '/src/assets/gesture_recognizer.task' ('' is falsy; an
\* undefined path is the string "undefined" here)
DefaultModelAssetPath == "/src/assets/gesture_recognizer.task"
OrDefaultPath(path) == IF path = "undefined" \/ path = "" THEN DefaultModelAssetPath ELSE path

\* No method is called on its own.
NoCall == [method |-> "none"]
NotReturned == [done |-> FALSE]

NoSmoothed == [wrist |-> null, palmCenter |-> null, thumbTip |-> null, indexTip |-> null]

\* The service as its constructor leaves it.
Constructed(constructorOptions) ==
    /\ isInitialized = FALSE
    /\ isInitializing = FALSE
    /\ isProcessing = FALSE
    /\ gestureRecognizer = FALSE
    /\ videoRef = FALSE
    /\ initPc = "none"
    /\ animationFrameRef = FALSE
    /\ lastVideoTimeRef = -1
    /\ subscribers = <<>>
    /\ temporalGestureSubscribers = <<>>
    /\ buffer = <<>>
    /\ \E options \in constructorOptions :
        /\ bufferSize = OrDefault(options.bufferSize, DefaultBufferSize)
        /\ emaAlpha = DefinedOrDefault(options.emaAlpha, DefaultEmaAlpha)
        /\ majorityWindowSize = OrDefault(options.majorityWindowSize, DefaultMajorityWindowSize)
        /\ maxGapSize = DefinedOrDefault(options.maxGapSize, DefaultMaxGapSize)
        /\ modelAssetPath = OrDefaultPath(options.modelAssetPath)
        /\ numHands = OrDefault(options.numHands, DefaultNumHands)
    /\ smoothed = NoSmoothed
    /\ lastDetectedGesture = NullLabel
    /\ currentFrameData = null
    /\ processed = FALSE
    /\ emitted = <<>>
    /\ calls = <<>>
    /\ cleared = <<>>
    /\ pointRun = 0
    /\ upOnly = FALSE
    /\ discreteLast = FALSE
    /\ unsubscribed = {}
    /\ registeredBefore = {}
    /\ instance = TRUE
    /\ requested = null
    /\ initFailure = "none"
    /\ initsInProgress = 0
    /\ loops = 0
    /\ iteration = "none"

InitWith(constructorOptions) ==
    /\ Constructed(constructorOptions)
    /\ args = NoCall
    /\ returned = NotReturned

\* The step invoked no callback and processed no frame.
QuietStep ==
    /\ processed' = FALSE
    /\ emitted' = <<>>
    /\ calls' = <<>>
    /\ cleared' = <<>>

\* The step ran no processFrame call.
NoFrame ==
    /\ QuietStep
    /\ iteration' = "none"
    /\ UNCHANGED callVars

\* ------------------------------------------------------- registries
\* An add that moves a member to the end.
SetAddMovesToEnd(set, callback) ==
    Append(SelectSeq(set, LAMBDA c : c # callback), callback)

\* Set.prototype.add: a member keeps its place.
SetAdd(set, callback) ==
    IF \E k \in 1..Len(set) : set[k] = callback THEN set ELSE Append(set, callback)

\* A delete that removes nothing.
SetDeleteNothing(set, callback) == set

\* Set.prototype.delete
SetDelete(set, callback) == SelectSeq(set, LAMBDA c : c # callback)

Members(set) == {set[k] : k \in 1..Len(set)}

\* The order of registration after callback is added to set, whose members are others.
RegisteredLast(others, callback) ==
    IF callback \in others THEN registeredBefore
    ELSE registeredBefore \cup {<<other, callback>> : other \in others}

\* The order of registration without callback.
Unregistered(callback) ==
    {pair \in registeredBefore : pair[1] # callback /\ pair[2] # callback}

\* MaybeInitialize without the test of isInitializing.
MaybeInitializeWhileInitializing ==
    IF ~isInitialized
    THEN /\ isInitializing' = TRUE
         /\ initPc' = "model"
         /\ initFailure' = "none"
         /\ initsInProgress' = initsInProgress + 1
    ELSE UNCHANGED <<isInitializing, initPc, initVars>>

\* if (!this.isInitialized && !this.isInitializing) this.initialize(): initialize()
\* runs to its first await with isInitializing set.
MaybeInitialize ==
    IF ~isInitialized /\ ~isInitializing
    THEN /\ isInitializing' = TRUE
         /\ initPc' = "model"
         /\ initFailure' = "none"
         /\ initsInProgress' = initsInProgress + 1
    ELSE UNCHANGED <<isInitializing, initPc, initVars>>

\* Callers reach the service through getInstance (useGestureRecognition.ts), which
\* returns this service only while it is the singleton instance.
subscribe(callback) ==
    /\ instance
    /\ subscribers' = SetAdd(subscribers, callback)
    /\ MaybeInitialize
    /\ NoFrame
    /\ unsubscribed' = unsubscribed \ {callback}
    /\ registeredBefore' = RegisteredLast(Members(subscribers), callback)
    /\ UNCHANGED <<isInitialized, isProcessing, gestureRecognizer, videoRef,
                   animationFrameRef, lastVideoTimeRef, temporalGestureSubscribers,
                   optionVars, pipelineVars, pointRun, upOnly, discreteLast,
                   singletonVars, loops>>

subscribeToTemporalGestures(callback) ==
    /\ instance
    /\ temporalGestureSubscribers' = SetAdd(temporalGestureSubscribers, callback)
    /\ MaybeInitialize
    /\ NoFrame
    /\ unsubscribed' = unsubscribed \ {callback}
    /\ registeredBefore' = RegisteredLast(Members(temporalGestureSubscribers), callback)
    /\ UNCHANGED <<isInitialized, isProcessing, gestureRecognizer, videoRef,
                   animationFrameRef, lastVideoTimeRef, subscribers,
                   optionVars, pipelineVars, pointRun, upOnly, discreteLast,
                   singletonVars, loops>>

\* The function subscribe returned, called while its callback is registered
\* (otherwise it changes nothing).
unsubscribe(callback) ==
    /\ callback \in Members(subscribers)
    /\ subscribers' = SetDelete(subscribers, callback)
    /\ NoFrame
    /\ unsubscribed' = unsubscribed \cup {callback}
    /\ registeredBefore' = Unregistered(callback)
    /\ UNCHANGED <<serviceVars, temporalGestureSubscribers, optionVars, pipelineVars,
                   pointRun, upOnly, discreteLast, singletonVars, initVars, loops>>

unsubscribeTemporal(callback) ==
    /\ callback \in Members(temporalGestureSubscribers)
    /\ temporalGestureSubscribers' = SetDelete(temporalGestureSubscribers, callback)
    /\ NoFrame
    /\ unsubscribed' = unsubscribed \cup {callback}
    /\ registeredBefore' = Unregistered(callback)
    /\ UNCHANGED <<serviceVars, subscribers, optionVars, pipelineVars, pointRun, upOnly,
                   discreteLast, singletonVars, initVars, loops>>

\* ---------------------------------------------------------- options
\* A getInstance that hands the recognizer options on to the existing instance.
getInstanceReconfigures(options) ==
    /\ instance
    /\ requested' = options
    /\ modelAssetPath' = OrDefaultPath(options.modelAssetPath)
    /\ numHands' = OrDefault(options.numHands, DefaultNumHands)
    /\ NoFrame
    /\ UNCHANGED <<serviceVars, registryVars, optionVars, pipelineVars, historyVars,
                   instance, initVars, loops>>

\* static getInstance(options) while GestureRecognitionService.instance is this
\* service: the instance is returned as it is and options is dropped.
getInstance(options) ==
    /\ instance
    /\ requested' = options
    /\ NoFrame
    /\ UNCHANGED <<serviceVars, registryVars, optionVars, pipelineVars, historyVars,
                   instance, modelAssetPath, numHands, initVars, loops>>

\* A getInstance that brings the destroyed service back as the instance.
getInstanceRevives(options) ==
    /\ ~instance
    /\ instance' = TRUE
    /\ requested' = null
    /\ NoFrame
    /\ UNCHANGED <<serviceVars, registryVars, optionVars, pipelineVars, historyVars,
                   modelAssetPath, numHands, initVars, loops>>

\* static getInstance(options) while GestureRecognitionService.instance is null:
\* new GestureRecognitionService(options) becomes the instance.  From here on the
\* variables describe the new service; the destroyed one is followed no further.
getInstanceCreates(options) ==
    /\ ~instance
    /\ isInitialized' = FALSE
    /\ isInitializing' = FALSE
    /\ isProcessing' = FALSE
    /\ gestureRecognizer' = FALSE
    /\ videoRef' = FALSE
    /\ initPc' = "none"
    /\ animationFrameRef' = FALSE
    /\ lastVideoTimeRef' = -1
    /\ subscribers' = <<>>
    /\ temporalGestureSubscribers' = <<>>
    /\ buffer' = <<>>
    /\ bufferSize' = OrDefault(options.bufferSize, DefaultBufferSize)
    /\ emaAlpha' = DefinedOrDefault(options.emaAlpha, DefaultEmaAlpha)
    /\ majorityWindowSize' = OrDefault(options.majorityWindowSize, DefaultMajorityWindowSize)
    /\ maxGapSize' = DefinedOrDefault(options.maxGapSize, DefaultMaxGapSize)
    /\ modelAssetPath' = OrDefaultPath(options.modelAssetPath)
    /\ numHands' = OrDefault(options.numHands, DefaultNumHands)
    /\ smoothed' = NoSmoothed
    /\ lastDetectedGesture' = NullLabel
    /\ currentFrameData' = null
    /\ processed' = FALSE
    /\ emitted' = <<>>
    /\ calls' = <<>>
    /\ cleared' = <<>>
    /\ pointRun' = 0
    /\ upOnly' = FALSE
    /\ discreteLast' = FALSE
    /\ unsubscribed' = {}
    /\ registeredBefore' = {}
    /\ instance' = TRUE
    /\ requested' = null
    /\ initFailure' = "none"
    /\ initsInProgress' = 0
    /\ loops' = 0
    /\ iteration' = "none"
    /\ UNCHANGED callVars

\* updateTemporalGestureOptions assigning every field, undefined ones too.
updateTemporalGestureOptionsAssignsAll(options) ==
    /\ bufferSize' = options.bufferSize
    /\ emaAlpha' = options.emaAlpha
    /\ majorityWindowSize' = options.majorityWindowSize
    /\ maxGapSize' = options.maxGapSize
    /\ NoFrame
    /\ pointRun' = IF bufferSize' = bufferSize THEN pointRun ELSE 0
    /\ UNCHANGED <<serviceVars, registryVars, pipelineVars, upOnly, discreteLast,
                   unsubscribed, registeredBefore, singletonVars, initVars, loops>>

updateTemporalGestureOptions(options) ==
    /\ bufferSize' = DefinedOrDefault(options.bufferSize, bufferSize)
    /\ emaAlpha' = DefinedOrDefault(options.emaAlpha, emaAlpha)
    /\ majorityWindowSize' = DefinedOrDefault(options.majorityWindowSize, majorityWindowSize)
    /\ maxGapSize' = DefinedOrDefault(options.maxGapSize, maxGapSize)
    /\ NoFrame
    /\ pointRun' = IF bufferSize' = bufferSize THEN pointRun ELSE 0
    /\ UNCHANGED <<serviceVars, registryVars, pipelineVars, upOnly, discreteLast,
                   unsubscribed, registeredBefore, singletonVars, initVars, loops>>

\* ------------------------------------------------------------ emitter
\* forEach without the try/catch: the exception of a throwing callback ends the loop
\* (the callers are left as they are).
InvokeAllUntilThrow(set, argument, log) ==
    LET throwers == {k \in 1..Len(set) : set[k] \in Throwing}
        last == IF throwers = {} THEN Len(set)
                ELSE CHOOSE k \in throwers : \A j \in throwers : k <= j
    IN  log \o [k \in 1..last |-> <<set[k], argument>>]

\* set.forEach((callback) => { try { callback(argument) } catch { console.error } }):
\* every member is invoked, in insertion order, whether or not an earlier one threw
\* (the callbacks in Throwing throw on every invocation).
InvokeAll(set, argument, log) ==
    log \o [k \in 1..Len(set) |-> <<set[k], argument>>]

\* The arguments callback was invoked with during the step, in order.
Delivered(callback) ==
    LET mine == SelectSeq(calls, LAMBDA c : c[1] = callback)
    IN  [k \in 1..Len(mine) |-> mine[k][2]]

\* result.gestures.forEach: the first-ranked gesture of each hand, the highest score
\* wins and the earlier hand wins a draw.
RECURSIVE TopGestureFrom(_, _)
TopGestureFrom(gestures, topGesture) ==
    IF gestures = <<>> THEN topGesture
    ELSE LET handGestures == gestures[1]
         IN  IF Len(handGestures) > 0
                /\ (topGesture = null \/ handGestures[1].score > topGesture.score)
             THEN TopGestureFrom(Tail1(gestures), handGestures[1])
             ELSE TopGestureFrom(Tail1(gestures), topGesture)

\* The four applyEMA calls and the four assignments to the smoothing state.
Smooth(refPoints, state, alpha) ==
    [wrist |-> applyEMA(alpha, refPoints.wrist, state.wrist),
     palmCenter |-> applyEMA(alpha, refPoints.palmCenter, state.palmCenter),
     thumbTip |-> applyEMA(alpha, refPoints.thumbTip, state.thumbTip),
     indexTip |-> applyEMA(alpha, refPoints.indexTip, state.indexTip)]

\* PointEvents for any recognised gesture.
PointEventsAnyGesture(topGesture, smoothedPalmCenter) ==
    IF topGesture # null /\ smoothedPalmCenter # null
    THEN <<[gesture |-> "point", x |-> smoothedPalmCenter.x,
            y |-> smoothedPalmCenter.y - PointYOffset]>>
    ELSE <<>>

\* isPointing and the point gesture: the events of the point path, none or one.
PointEvents(topGesture, smoothedPalmCenter) ==
    IF topGesture # null /\ topGesture.categoryName = "Pointing_Up"
       /\ smoothedPalmCenter # null
    THEN <<[gesture |-> "point", x |-> smoothedPalmCenter.x,
            y |-> smoothedPalmCenter.y - PointYOffset]>>
    ELSE <<>>

\* PushEntry inserting at the head and evicting at the tail.
PushEntryAtHead(buf, entry, size) ==
    LET pushed == <<entry>> \o buf
    IN  IF Len(pushed) > size THEN SubSeq(pushed, 1, Len(pushed) - 1) ELSE pushed

\* PushEntry leaving out the entry of a frame without a palm centre.
PushEntrySkipsNoHand(buf, entry, size) ==
    LET pushed == IF entry.palmCenter = null THEN buf ELSE Append(buf, entry)
    IN  IF Len(pushed) > size THEN Tail1(pushed) ELSE pushed

\* PushEntry evicting as soon as the buffer reaches bufferSize.
PushEntryEvictsEarly(buf, entry, size) ==
    IF Len(buf) + 1 >= size THEN Tail1(Append(buf, entry)) ELSE Append(buf, entry)

\* this.buffer.push(entry); if (this.buffer.length > this.bufferSize) this.buffer.shift()
PushEntry(buf, entry, size) ==
    LET pushed == Append(buf, entry)
    IN  IF Len(pushed) > size THEN Tail1(pushed) ELSE pushed

\* The events of the buffered path: the detected gesture, if any.
DetectedEvents(detected) ==
    IF detected # NullLabel THEN <<[gesture |-> detected]>> ELSE <<>>

\* BufferAfterDetection clearing after swipes only.
BufferAfterDetectionSwipeOnly(buf, detected) ==
    IF detected \in {"swipe_left", "swipe_right"} THEN <<>> ELSE buf

\* A detection that keeps the buffer after every gesture.
BufferAfterDetectionKept(buf, detected) == buf

\* if (detectedGesture) { ...; if (gestureType !== 'point') this.buffer = [] }
BufferAfterDetection(buf, detected) ==
    IF detected # NullLabel /\ detected # "point" THEN <<>> ELSE buf

\* A detection that also forgets the smoothing state after a swipe or a click.
SmoothedAfterDetectionCleared(sm, detected) ==
    IF detected # NullLabel /\ detected # "point" THEN NoSmoothed ELSE sm

\* A smoothing state that keeps its last point where the frame's smoothed point is null.
SmoothedAfterDetectionKeepsLast(sm, detected) ==
    [wrist |-> IF sm.wrist = null THEN smoothed.wrist ELSE sm.wrist,
     palmCenter |-> IF sm.palmCenter = null THEN smoothed.palmCenter ELSE sm.palmCenter,
     thumbTip |-> IF sm.thumbTip = null THEN smoothed.thumbTip ELSE sm.thumbTip,
     indexTip |-> IF sm.indexTip = null THEN smoothed.indexTip ELSE sm.indexTip]

\* The smoothing state after detection: this.smoothedWrist .. this.smoothedIndexTip
\* were assigned before the entry was pushed and nothing assigns them afterwards.
SmoothedAfterDetection(sm, detected) == sm

\* The BufferEntry of a frame.
Entry(sm, topGesture) ==
    [wrist |-> sm.wrist, palmCenter |-> sm.palmCenter, thumbTip |-> sm.thumbTip,
     indexTip |-> sm.indexTip, topGesture |-> topGesture]

\* FrameCalls notifying the frame subscribers with the frame data of the frame before.
FrameCallsStaleFrameData(frameData, pointEvents, detectedEvents) ==
    LET afterPoint == IF pointEvents # <<>>
                      THEN InvokeAll(temporalGestureSubscribers, pointEvents[1], <<>>)
                      ELSE <<>>
        afterDetected == IF detectedEvents # <<>>
                         THEN InvokeAll(temporalGestureSubscribers, detectedEvents[1], afterPoint)
                         ELSE afterPoint
    IN  InvokeAll(subscribers, currentFrameData, afterDetected)

\* FrameCalls notifying the frame subscribers before the temporal subscribers.
FrameCallsFrameDataFirst(frameData, pointEvents, detectedEvents) ==
    LET afterFrame == InvokeAll(subscribers, frameData, <<>>)
        afterPoint == IF pointEvents # <<>>
                      THEN InvokeAll(temporalGestureSubscribers, pointEvents[1], afterFrame)
                      ELSE afterFrame
    IN  IF detectedEvents # <<>>
        THEN InvokeAll(temporalGestureSubscribers, detectedEvents[1], afterPoint)
        ELSE afterPoint

\* The invocations of a frame: the point event and then the detected event to the
\* temporal subscribers, then frameData to the frame subscribers.
FrameCalls(frameData, pointEvents, detectedEvents) ==
    LET afterPoint == IF pointEvents # <<>>
                      THEN InvokeAll(temporalGestureSubscribers, pointEvents[1], <<>>)
                      ELSE <<>>
        afterDetected == IF detectedEvents # <<>>
                         THEN InvokeAll(temporalGestureSubscribers, detectedEvents[1], afterPoint)
                         ELSE afterPoint
    IN  InvokeAll(subscribers, frameData, afterDetected)

\* The state after a frame, when pushed is the buffer given to detectTemporalGesture.
Emit(frameData, sm, pointEvents, pushed, detected) ==
    /\ currentFrameData' = frameData
    /\ smoothed' = SmoothedAfterDetection(sm, detected)
    /\ lastDetectedGesture' =
          IF pointEvents # <<>> THEN "point"
          ELSE IF lastDetectedGesture = "point" THEN NullLabel
          ELSE lastDetectedGesture
    /\ buffer' = BufferAfterDetection(pushed, detected)
    /\ cleared' = IF buffer' = pushed THEN <<>> ELSE pushed
    /\ emitted' = pointEvents \o DetectedEvents(detected)
    /\ calls' = FrameCalls(frameData, pointEvents, DetectedEvents(detected))
    /\ processed' = TRUE
    /\ pointRun' = IF pointEvents # <<>> /\ (Len(buffer) = 0 \/ pointRun > 0)
                      /\ pointRun < MaxRun
                   THEN pointRun + 1 ELSE 0
    /\ upOnly' = /\ (Len(buffer) = 0 \/ upOnly)
                  /\ frameData.topGesture # null
                  /\ frameData.topGesture.categoryName = "Pointing_Up"
    /\ discreteLast' = (detected # NullLabel)
    /\ UNCHANGED <<unsubscribed, registeredBefore>>

Detect(frameData, sm, pushed) ==
    Emit(frameData, sm, PointEvents(frameData.topGesture, sm.palmCenter), pushed,
         detectTemporalGesture(pushed, majorityWindowSize, maxGapSize))

\* processTemporalGestureDetection from the smoothed reference points on.
ProcessSmoothed(frameData, sm) ==
    Detect(frameData, sm, PushEntry(buffer, Entry(sm, frameData.topGesture), bufferSize))

processTemporalGestureDetection(frameData, landmarks) ==
    ProcessSmoothed(frameData, Smooth(computeReferencePoints(landmarks), smoothed, emaAlpha))

\* processResult, then the notification of the frame subscribers in processFrame.
\* frameData keeps topGesture, the field the service and the model's callbacks read.
ProcessResult(result) ==
    processTemporalGestureDetection(
        [topGesture |-> TopGestureFrom(result.gestures, null)],
        IF Len(result.landmarks) > 0 THEN result.landmarks[1] ELSE NoLandmarks)

\* A processFrame without the test of the video time.
VideoTimeChangedAlways(newFrame) == TRUE

\* video.currentTime !== this.lastVideoTimeRef, where newFrame says whether the video
\* has moved on since the frame processed last (currentTime is never negative).
VideoTimeChanged(newFrame) == lastVideoTimeRef = -1 \/ newFrame

\* One run of processFrame with isProcessing as given: stop, or process a new video
\* frame (the recognizer returning result or throwing), and request the next frame.
ProcessFrame(processing, result, newFrame, inferenceThrows) ==
    IF ~videoRef' \/ ~gestureRecognizer' \/ ~processing
    THEN /\ isProcessing' = FALSE
         /\ iteration' = "stopped"
         /\ UNCHANGED callVars
         /\ animationFrameRef' = FALSE
         /\ QuietStep
         /\ UNCHANGED <<lastVideoTimeRef, pipelineVars, historyVars>>
    ELSE /\ isProcessing' = processing
         /\ iteration' = IF ~newFrame THEN "same"
                         ELSE IF inferenceThrows THEN "throws" ELSE "new"
         /\ UNCHANGED callVars
         /\ IF VideoTimeChanged(newFrame)
            THEN IF inferenceThrows
                 THEN /\ animationFrameRef' = FALSE
                      /\ QuietStep
                      /\ UNCHANGED <<lastVideoTimeRef, pipelineVars, historyVars>>
                 ELSE /\ ProcessResult(result)
                      /\ lastVideoTimeRef' = 0
                      /\ animationFrameRef' = TRUE
            ELSE /\ animationFrameRef' = TRUE
                 /\ QuietStep
                 /\ UNCHANGED <<lastVideoTimeRef, pipelineVars, historyVars>>

\* -------------------------------------------------------- processing
\* The requested animation frame fires and processFrame runs; the video shows a frame
\* other than the one processed last.
AnimationFrame(result) ==
    /\ animationFrameRef
    /\ Len(result.landmarks) <= numHands
    /\ UNCHANGED <<isInitialized, isInitializing, gestureRecognizer, videoRef, initPc,
                   registryVars, optionVars, singletonVars, initVars>>
    /\ ProcessFrame(isProcessing, result, TRUE, FALSE)
    /\ loops' = IF animationFrameRef' THEN loops ELSE loops - 1

\* The same while the video still shows the frame processed last.
AnimationFrameSameVideoFrame ==
    /\ animationFrameRef
    /\ lastVideoTimeRef # -1
    /\ UNCHANGED <<isInitialized, isInitializing, gestureRecognizer, videoRef, initPc,
                   registryVars, optionVars, singletonVars, initVars>>
    /\ ProcessFrame(isProcessing, NoHand, FALSE, FALSE)
    /\ loops' = IF animationFrameRef' THEN loops ELSE loops - 1

\* The same on a new video frame, with recognizeForVideo throwing: nothing catches it
\* inside processFrame, so the next animation frame is never requested.
AnimationFrameInferenceThrows ==
    /\ animationFrameRef
    /\ UNCHANGED <<isInitialized, isInitializing, gestureRecognizer, videoRef, initPc,
                   registryVars, optionVars, singletonVars, initVars>>
    /\ ProcessFrame(isProcessing, NoHand, TRUE, TRUE)
    /\ loops' = IF animationFrameRef' THEN loops ELSE loops - 1

\* ---------------------------------------------------- initialization
\* initialize(): the awaits on FilesetResolver, createFromOptions and setOptions
\* complete; accessWebcam() runs to its await on getUserMedia.
ModelLoaded ==
    /\ initPc = "model"
    /\ gestureRecognizer' = TRUE
    /\ initPc' = "webcam"
    /\ NoFrame
    /\ UNCHANGED <<isInitialized, isInitializing, isProcessing, videoRef, animationFrameRef,
                   lastVideoTimeRef, registryVars, optionVars, pipelineVars, historyVars,
                   singletonVars, initVars, loops>>

\* One of those awaits rejects: the catch block of initialize().
ModelLoadFails ==
    /\ initPc = "model"
    /\ isInitializing' = FALSE
    /\ initPc' = "none"
    /\ NoFrame
    /\ initFailure' = "model"
    /\ initsInProgress' = initsInProgress - 1
    /\ UNCHANGED <<isInitialized, isProcessing, gestureRecognizer, videoRef,
                   animationFrameRef, lastVideoTimeRef, registryVars, optionVars,
                   pipelineVars, historyVars, singletonVars, loops>>

\* getUserMedia resolves: the video element exists, accessWebcam awaits loadedmetadata.
WebcamGranted ==
    /\ initPc = "webcam"
    /\ videoRef' = TRUE
    /\ initPc' = "metadata"
    /\ NoFrame
    /\ UNCHANGED <<isInitialized, isInitializing, isProcessing, gestureRecognizer,
                   animationFrameRef, lastVideoTimeRef, registryVars, optionVars,
                   pipelineVars, historyVars, singletonVars, initVars, loops>>

\* getUserMedia rejects: accessWebcam catches it and returns, initialize() goes on.
WebcamDenied ==
    /\ initPc = "webcam"
    /\ isInitialized' = TRUE
    /\ isInitializing' = FALSE
    /\ initPc' = "none"
    /\ NoFrame
    /\ initFailure' = "webcam"
    /\ initsInProgress' = initsInProgress - 1
    /\ UNCHANGED <<isProcessing, gestureRecognizer, videoRef, animationFrameRef,
                   lastVideoTimeRef, registryVars, optionVars, pipelineVars, historyVars,
                   singletonVars, loops>>

\* loadedmetadata and play(): accessWebcam calls startProcessing(), which runs
\* processFrame() once itself unless a loop is already running; then initialize()
\* sets isInitialized.  An exception of that first processFrame() is caught by
\* accessWebcam.
StartProcessing(result, inferenceThrows) ==
    /\ initPc = "metadata"
    /\ isInitialized' = TRUE
    /\ isInitializing' = FALSE
    /\ initPc' = "none"
    /\ initsInProgress' = initsInProgress - 1
    /\ UNCHANGED <<gestureRecognizer, videoRef, registryVars, optionVars, singletonVars,
                   initFailure>>
    /\ IF isProcessing
       THEN /\ NoFrame
            /\ UNCHANGED <<isProcessing, animationFrameRef, lastVideoTimeRef, pipelineVars,
                           historyVars, loops>>
       ELSE /\ ProcessFrame(TRUE, result, TRUE, inferenceThrows)
            /\ loops' = IF animationFrameRef' THEN loops + 1 ELSE loops

MetadataLoaded(result) ==
    /\ Len(result.landmarks) <= numHands
    /\ StartProcessing(result, FALSE)

MetadataLoadedInferenceThrows == StartProcessing(NoHand, TRUE)

\* ----------------------------------------------------------- teardown
destroy ==
    /\ isProcessing' = FALSE
    /\ animationFrameRef' = FALSE
    /\ subscribers' = <<>>
    /\ temporalGestureSubscribers' = <<>>
    /\ buffer' = <<>>
    /\ currentFrameData' = null
    /\ NoFrame
    /\ pointRun' = 0
    /\ upOnly' = FALSE
    /\ discreteLast' = FALSE
    /\ registeredBefore' = {}
    /\ instance' = FALSE
    /\ loops' = IF animationFrameRef THEN loops - 1 ELSE loops
    /\ UNCHANGED unsubscribed
    /\ UNCHANGED <<isInitialized, isInitializing, gestureRecognizer, videoRef, initPc,
                   lastVideoTimeRef, optionVars, smoothed, lastDetectedGesture,
                   modelAssetPath, numHands, requested, initVars>>

\* -------------------------------------------------------------- spec
\* The service with one callback per registry, subscribed once each.
Init == InitWith(ConstructorOptions)
Next ==
    \/ subscribe("f1")
    \/ subscribeToTemporalGestures("t1")
    \/ \E options \in OptionUpdates : updateTemporalGestureOptions(options)
    \/ ModelLoaded
    \/ ModelLoadFails
    \/ WebcamGranted
    \/ WebcamDenied
    \/ \E result \in Results : MetadataLoaded(result)
    \/ MetadataLoadedInferenceThrows
    \/ \E result \in Results : AnimationFrame(result)
    \/ AnimationFrameSameVideoFrame
    \/ AnimationFrameInferenceThrows
    \/ destroy
Spec == Init /\ [][Next]_vars

\* The service with two callbacks per registry and their unsubscribe functions, on
\* fewer recognizer results, every animation frame showing a new video frame that the
\* recognizer accepts.
InitRegistry == InitWith(RegistryConstructorOptions)
NextRegistry ==
    \/ \E callback \in FrameCallbacks : subscribe(callback)
    \/ \E callback \in TemporalCallbacks : subscribeToTemporalGestures(callback)
    \/ \E callback \in FrameCallbacks : unsubscribe(callback)
    \/ \E callback \in TemporalCallbacks : unsubscribeTemporal(callback)
    \/ \E options \in RegistryOptionUpdates : updateTemporalGestureOptions(options)
    \/ ModelLoaded
    \/ ModelLoadFails
    \/ WebcamGranted
    \/ WebcamDenied
    \/ \E result \in RegistryResults : MetadataLoaded(result)
    \/ \E result \in RegistryResults : AnimationFrame(result)
    \/ destroy
SpecRegistry == InitRegistry /\ [][NextRegistry]_vars

\* The default service (bufferSize 30, window 5, gap 2) without smoothing, fed the
\* frames of the swipe scenario: ten frames without a hand, six Open_Palm frames,
\* then five frames with a Closed_Fist hand or without a hand.
ScenarioConstructorOptions ==
    [bufferSize : {undefined}, emaAlpha : {AlphaOne},
     majorityWindowSize : {undefined}, maxGapSize : {undefined},
     modelAssetPath : {"undefined"}, numHands : {undefined}]

ScenarioResults ==
    IF Len(buffer) < 10 THEN {NoHand}
    ELSE IF Len(buffer) < 15 THEN {OneHand("Open_Palm", 9, 4)}
    ELSE IF Len(buffer) = 15 THEN {OneHand("Open_Palm", 9, 4), OneHand("Open_Palm", 9, 7)}
    ELSE IF Len(buffer) <= 20
         THEN {OneHand("Closed_Fist", 8, x) : x \in {4, 6, 7}} \cup {NoHand}
    ELSE {}

InitScenario == InitWith(ScenarioConstructorOptions)
NextScenario ==
    \/ subscribeToTemporalGestures("t1")
    \/ ModelLoaded
    \/ WebcamGranted
    \/ \E result \in ScenarioResults : MetadataLoaded(result)
    \/ \E result \in ScenarioResults : AnimationFrame(result)
SpecScenario == InitScenario /\ [][NextScenario]_vars

\* The service constructed with numHands 1, bufferSize 3 and emaAlpha 0.5, with one
\* temporal subscriber, fed frames that move the hand, its options updated and
\* getInstance called again while it runs.
OptionsConstructorOptions ==
    [bufferSize : {3}, emaAlpha : {5},
     majorityWindowSize : {3}, maxGapSize : {undefined},
     modelAssetPath : {"undefined"}, numHands : {1}]

OptionsOptionUpdates ==
    {[bufferSize |-> 4, emaAlpha |-> undefined, majorityWindowSize |-> undefined,
      maxGapSize |-> undefined],
     [bufferSize |-> undefined, emaAlpha |-> AlphaOne, majorityWindowSize |-> undefined,
      maxGapSize |-> undefined],
     [bufferSize |-> undefined, emaAlpha |-> undefined, majorityWindowSize |-> 5,
      maxGapSize |-> 1]}

\* The options of the later getInstance calls.
GetInstanceOptions ==
    {[bufferSize |-> undefined, emaAlpha |-> undefined, majorityWindowSize |-> undefined,
      maxGapSize |-> undefined, modelAssetPath |-> "/models/other.task", numHands |-> 2]}

\* palmCenter.x of the hands of specification SpecOptions.
OptionsXs == {4, 10}

OptionsResults ==
    {NoHand, OneHand("Open_Palm", 9, 4)}
        \cup {OneHand("Closed_Fist", 8, x) : x \in OptionsXs}
        \cup {Result(<<Hand(4, 10), Hand(10, 10)>>,
                      <<<<Gesture("Open_Palm", 9)>>, <<Gesture("Closed_Fist", 8)>>>>)}

InitOptions == InitWith(OptionsConstructorOptions)
NextOptions ==
    \/ subscribeToTemporalGestures("t1")
    \/ \E options \in OptionsOptionUpdates : updateTemporalGestureOptions(options)
    \/ \E options \in GetInstanceOptions : getInstance(options)
    \/ ModelLoaded
    \/ WebcamGranted
    \/ \E result \in OptionsResults : MetadataLoaded(result)
    \/ \E result \in OptionsResults : AnimationFrame(result)
SpecOptions == InitOptions /\ [][NextOptions]_vars

\* The singleton: a service with a two-entry buffer and one callback per registry,
\* destroyed and created again through getInstance.
SingletonConstructorOptions ==
    [bufferSize : {2}, emaAlpha : {AlphaOne}, majorityWindowSize : {3},
     maxGapSize : {undefined}, modelAssetPath : {"undefined"}, numHands : {undefined}]

\* The options of the later getInstance calls.
SingletonOptions ==
    [bufferSize : {2}, emaAlpha : {AlphaOne}, majorityWindowSize : {3},
     maxGapSize : {undefined}, modelAssetPath : {"undefined"}, numHands : {undefined, 1}]

SingletonResults ==
    {NoHand, OneHand("Pointing_Up", 9, 4), Result(<<>>, <<<<Gesture("Pointing_Up", 9)>>>>)}

InitSingleton == InitWith(SingletonConstructorOptions)
NextSingleton ==
    \/ \E options \in SingletonOptions : getInstance(options)
    \/ \E options \in SingletonOptions : getInstanceCreates(options)
    \/ subscribe("f1")
    \/ subscribeToTemporalGestures("t1")
    \/ ModelLoaded
    \/ WebcamGranted
    \/ \E result \in SingletonResults : MetadataLoaded(result)
    \/ \E result \in SingletonResults : AnimationFrame(result)
    \/ destroy
SpecSingleton == InitSingleton /\ [][NextSingleton]_vars

\* The private methods applyEMA, applySlidingMajorityFilter, detectTemporalGesture and
\* the block methods it calls, each called on its own on every argument of a bounded set.
\* emaAlpha from 0 to 1 in tenths.
Alphas == 0..AlphaOne

FunctionPoints == {[x |-> x, y |-> y] : x \in {0, 7, 20}, y \in {4, 13}}

\* A BufferEntry with all four reference points at (x, 10).
EntryAt(x, topGesture) ==
    Entry([wrist |-> [x |-> x, y |-> 10], palmCenter |-> [x |-> x, y |-> 10],
           thumbTip |-> [x |-> x, y |-> 10], indexTip |-> [x |-> x, y |-> 10]],
          topGesture)

FunctionEntries ==
    {Entry(NoSmoothed, null),
     EntryAt(4, Gesture("None", 5)),
     EntryAt(4, Gesture("Open_Palm", 9)),
     EntryAt(4, Gesture("Closed_Fist", 8)),
     EntryAt(7, Gesture("Closed_Fist", 8)),
     EntryAt(4, Gesture("Pointing_Up", 9))}

FunctionBuffers == UNION {[1..n -> FunctionEntries] : n \in 0..MaxLen}

\* The buffers given to detectTemporalGesture: also with a Closed_Fist frame whose
\* result carried a gesture and no landmarks.
DetectEntries == FunctionEntries \cup {Entry(NoSmoothed, Gesture("Closed_Fist", 8))}
DetectBuffers == UNION {[1..n -> DetectEntries] : n \in 0..MaxLen}

\* The arguments detectTemporalGesture gives to the block methods, for these buffers:
\* the filter's output, its blocks, the blocks after each merge, the two signatures.
SmoothedSequences ==
    {applySlidingMajorityFilter(buf, window) : buf \in FunctionBuffers, window \in {3, 5}}
CompressedBlocks == {compressSmoothedLabelsToBlocks(labels) : labels \in SmoothedSequences}
GapSizes == {1, DefaultMaxGapSize}
GapMergedBlocks == {mergeTinyGaps(blocks, gap) : blocks \in CompressedBlocks, gap \in GapSizes}
MatchedBlocks == {mergeConsecutiveSameGestures(blocks) : blocks \in GapMergedBlocks}
Sequences == {SwipeSequence, ClickSequence}

FunctionCalls ==
    {[method |-> "applyEMA", emaAlpha |-> alpha, current |-> current, previous |-> previous] :
        alpha \in Alphas, current \in FunctionPoints \cup {null},
        previous \in FunctionPoints \cup {null}}
    \cup
    {[method |-> "applySlidingMajorityFilter", buffer |-> buf, majorityWindowSize |-> window] :
        buf \in FunctionBuffers, window \in {3, 5}}
    \cup
    {[method |-> "detectTemporalGesture", buffer |-> buf, majorityWindowSize |-> 3,
      maxGapSize |-> DefaultMaxGapSize] : buf \in DetectBuffers}
    \cup
    {[method |-> "compressSmoothedLabelsToBlocks", smoothedLabels |-> labels] :
        labels \in SmoothedSequences}
    \cup
    {[method |-> "mergeTinyGaps", blocks |-> blocks, maxGapSize |-> gap] :
        blocks \in CompressedBlocks, gap \in GapSizes}
    \cup
    {[method |-> "mergeConsecutiveSameGestures", blocks |-> blocks] :
        blocks \in GapMergedBlocks}
    \cup
    {[method |-> "matchGestureSequence", blocks |-> blocks, sequence |-> sequence] :
        blocks \in MatchedBlocks, sequence \in Sequences}

Returns(value) ==
    /\ ~returned.done
    /\ returned' = [done |-> TRUE, value |-> value]
    /\ UNCHANGED <<args, serviceState>>

CallApplyEMA ==
    /\ args.method = "applyEMA"
    /\ Returns(applyEMA(args.emaAlpha, args.current, args.previous))

CallApplySlidingMajorityFilter ==
    /\ args.method = "applySlidingMajorityFilter"
    /\ Returns(applySlidingMajorityFilter(args.buffer, args.majorityWindowSize))

CallDetectTemporalGesture ==
    /\ args.method = "detectTemporalGesture"
    /\ Returns(detectTemporalGesture(args.buffer, args.majorityWindowSize, args.maxGapSize))

CallCompressSmoothedLabelsToBlocks ==
    /\ args.method = "compressSmoothedLabelsToBlocks"
    /\ Returns(compressSmoothedLabelsToBlocks(args.smoothedLabels))

CallMergeTinyGaps ==
    /\ args.method = "mergeTinyGaps"
    /\ Returns(mergeTinyGaps(args.blocks, args.maxGapSize))

CallMergeConsecutiveSameGestures ==
    /\ args.method = "mergeConsecutiveSameGestures"
    /\ Returns(mergeConsecutiveSameGestures(args.blocks))

CallMatchGestureSequence ==
    /\ args.method = "matchGestureSequence"
    /\ Returns(matchGestureSequence(args.blocks, args.sequence))

InitFunctions ==
    /\ Constructed(ScenarioConstructorOptions)
    /\ args \in FunctionCalls
    /\ returned = NotReturned
NextFunctions ==
    \/ CallApplyEMA
    \/ CallApplySlidingMajorityFilter
    \/ CallDetectTemporalGesture
    \/ CallCompressSmoothedLabelsToBlocks
    \/ CallMergeTinyGaps
    \/ CallMergeConsecutiveSameGestures
    \/ CallMatchGestureSequence
SpecFunctions == InitFunctions /\ [][NextFunctions]_vars

\* ------------------------------------------------------- properties
\* isReady(): return this.isInitialized && this.isProcessing
isReady == isInitialized /\ isProcessing

\* The buffer detectTemporalGesture examined in the frame processed last.
DetectBuffer == IF cleared # <<>> THEN cleared ELSE buffer

\* Its final blocks.
LastBlocks == FinalBlocks(DetectBuffer, majorityWindowSize, maxGapSize)

\* The final blocks end with the blocks labelled gestures, in order.
EndsWith(blocks, gestures) ==
    /\ Len(blocks) >= Len(gestures)
    /\ \A k \in 1..Len(gestures) :
          blocks[Len(blocks) - Len(gestures) + k].gesture = gestures[k]

IsDiscrete(event) == event.gesture \in {"swipe_left", "swipe_right", "click"}
IsPoint(event) == event.gesture = "point"
DiscreteEmitted == SelectSeq(emitted, IsDiscrete)

Registered(callback) ==
    callback \in Members(subscribers) \cup Members(temporalGestureSubscribers)

\* C1: a frame that emits a swipe_left, swipe_right or click event has delivered it to
\* every temporal subscriber and leaves the buffer empty, and the buffer is still
\* empty whenever the next frame is processed.
C1_BufferEmptyAfterDiscreteEvent ==
    /\ discreteLast => Len(buffer) = 0
    /\ (processed /\ DiscreteEmitted # <<>>) =>
          /\ discreteLast
          /\ Len(buffer) = 0
          /\ cleared # <<>>
          /\ \A callback \in Members(temporalGestureSubscribers) :
                \E k \in 1..Len(Delivered(callback)) :
                    Delivered(callback)[k] = DiscreteEmitted[1]

C1_Witness ==
    /\ processed
    /\ DiscreteEmitted # <<>>
    /\ temporalGestureSubscribers # <<>>
    /\ Len(cleared) > 1

\* C2: after every processed frame the buffer holds at most bufferSize entries, also
\* when updateTemporalGestureOptions lowered bufferSize while the buffer was full.
C2_BufferWithinBufferSize == processed => Len(buffer) <= bufferSize

\* With tail saying whether the final blocks end with the click signature.
ClickIffTail(tail) ==
    /\ tail =>
          /\ DiscreteEmitted = <<[gesture |-> "click"]>>
          /\ buffer = <<>>
          /\ \A callback \in Members(temporalGestureSubscribers) :
                Len(SelectSeq(Delivered(callback), IsDiscrete)) = 1
    /\ (\E k \in 1..Len(emitted) : emitted[k].gesture = "click") => tail

\* C3: a frame whose final blocks end with Pointing_Up, Closed_Fist, Pointing_Up emits
\* exactly one click, delivered once to each temporal subscriber, and clears the
\* buffer; a click is emitted by such a frame only; and frames that have seen nothing
\* but Pointing_Up since the buffer was empty emit no click.
C3_OneClickPerOccurrence ==
    processed =>
        /\ ClickIffTail(EndsWith(LastBlocks, <<"Pointing_Up", "Closed_Fist", "Pointing_Up">>))
        /\ upOnly => DiscreteEmitted = <<>>

C3_Witness ==
    /\ processed
    /\ DiscreteEmitted = <<[gesture |-> "click"]>>
    /\ temporalGestureSubscribers # <<>>
    /\ buffer = <<>>

\* The swipe signature at the tail of blocks, with the palm centres the swipe branch
\* reads: at the start index of the last block and at the tail of buf.
SwipeTail(blocks) == EndsWith(blocks, <<"Open_Palm", "Closed_Fist">>)
StartPalm(buf, blocks) == buf[Last(blocks).start + 1].palmCenter
TailPalm(buf) == Last(buf).palmCenter

DisplacementDecides(dx) ==
    /\ dx > 2 => DiscreteEmitted = <<[gesture |-> "swipe_left"]>> /\ buffer = <<>>
    /\ dx < -2 => DiscreteEmitted = <<[gesture |-> "swipe_right"]>> /\ buffer = <<>>
    /\ (dx >= -2 /\ dx <= 2) =>
          /\ DiscreteEmitted = <<>>
          /\ cleared = <<>>
          /\ buffer = DetectBuffer

PalmsDecide(startPalm, tailPalm) ==
    (startPalm # null /\ tailPalm # null) => DisplacementDecides(tailPalm.x - startPalm.x)

SwipeDecided(buf, blocks) ==
    SwipeTail(blocks) => PalmsDecide(StartPalm(buf, blocks), TailPalm(buf))

\* C4: when the final blocks end with Open_Palm, Closed_Fist and both palm centres
\* exist, dx = tail x - x at the start index of the last block decides: dx > 0.1 emits
\* swipe_left, dx < -0.1 emits swipe_right, and otherwise the frame emits neither a
\* swipe nor a click and the buffer is not cleared (0.1 is 2 units).
C4_SwipeByDisplacement == processed => SwipeDecided(DetectBuffer, LastBlocks)

PalmsAtThreshold(startPalm, tailPalm) ==
    startPalm # null /\ tailPalm # null /\ tailPalm.x - startPalm.x = 2

SwipeAtThreshold(buf, blocks) ==
    SwipeTail(blocks) /\ PalmsAtThreshold(StartPalm(buf, blocks), TailPalm(buf))

\* The boundary: a displacement of exactly 0.1 emits nothing.
C4_Witness ==
    /\ processed
    /\ DiscreteEmitted = <<>>
    /\ Len(buffer) > 0
    /\ SwipeAtThreshold(DetectBuffer, LastBlocks)

\* The scenario's frame: the buffer's tail is index 20 and the final blocks end with
\* Open_Palm over 10..15 and Closed_Fist over 16..20.
ScenarioBlocks(blocks) ==
    /\ Len(blocks) >= 2
    /\ blocks[Len(blocks) - 1] = [gesture |-> "Open_Palm", start |-> 10, end |-> 15]
    /\ Last(blocks) = [gesture |-> "Closed_Fist", start |-> 16, end |-> 20]

ScenarioFrame ==
    /\ processed
    /\ Len(DetectBuffer) = 21
    /\ ScenarioBlocks(LastBlocks)

\* palmCenter.x of the buffer entry at the 0-based index is x.
PalmXAt(index, x) ==
    /\ DetectBuffer[index + 1].palmCenter # null
    /\ DetectBuffer[index + 1].palmCenter.x = x

\* C5 as stated: in the scenario's frame with palmCenter.x 0.20 at index 15 and 0.35
\* at index 20, swipe_left is emitted and the buffer is emptied, whatever the other
\* x values are.
C5_SwipeFromIndex15 ==
    (processed /\ Len(DetectBuffer) = 21 /\ PalmXAt(15, 4) /\ PalmXAt(20, 7)
     /\ ScenarioFrame) =>
        DiscreteEmitted = <<[gesture |-> "swipe_left"]>> /\ Len(buffer) = 0

\* C5 amended: in the scenario's frame with palmCenter.x 0.20 at index 16, the start
\* index of the Closed_Fist block, and 0.35 at index 20, swipe_left is emitted and the
\* buffer is emptied, whatever the other x values are.
C5_SwipeFromIndex16 ==
    (processed /\ Len(DetectBuffer) = 21 /\ PalmXAt(16, 4) /\ PalmXAt(20, 7)
     /\ ScenarioFrame) =>
        DiscreteEmitted = <<[gesture |-> "swipe_left"]>> /\ Len(buffer) = 0

C5_Witness ==
    /\ processed
    /\ Len(DetectBuffer) = 21
    /\ PalmXAt(16, 4)
    /\ PalmXAt(20, 7)
    /\ PalmXAt(15, 7)
    /\ ScenarioFrame
    /\ DiscreteEmitted = <<[gesture |-> "swipe_left"]>>
    /\ Len(buffer) = 0

\* The frame processed last had top label Pointing_Up and a smoothed palm centre.
PointingFrame ==
    /\ currentFrameData.topGesture # null
    /\ currentFrameData.topGesture.categoryName = "Pointing_Up"
    /\ smoothed.palmCenter # null

\* C6: a frame delivers the point event (x, y - 0.3) of the smoothed palm centre, once,
\* to every temporal subscriber when its top label is Pointing_Up and the smoothed palm
\* centre exists, and delivers no point event otherwise (0.3 is 6 units).
C6_PointOnEveryPointingFrame ==
    processed =>
        \A callback \in TemporalCallbacks :
            SelectSeq(Delivered(callback), IsPoint) =
                IF PointingFrame /\ callback \in Members(temporalGestureSubscribers)
                THEN <<[gesture |-> "point", x |-> smoothed.palmCenter.x,
                        y |-> smoothed.palmCenter.y - 6]>>
                ELSE <<>>

C6_Witness ==
    /\ processed
    /\ PointingFrame
    /\ Members(temporalGestureSubscribers) = TemporalCallbacks
    /\ \A callback \in TemporalCallbacks : Len(Delivered(callback)) = 1

\* C7: during a run of N pointing frames begun on an empty buffer every frame emits
\* exactly one point event and nothing else, and the buffer holds min(N, bufferSize)
\* entries.
C7_PointingRun ==
    pointRun > 0 =>
        /\ Len(buffer) = Min(pointRun, bufferSize)
        /\ ~discreteLast
        /\ processed => (Len(emitted) = 1 /\ IsPoint(emitted[1]))

C7_Witness ==
    /\ processed
    /\ pointRun > bufferSize
    /\ bufferSize > 1
    /\ Len(buffer) = bufferSize

\* C8: a frame emits at most one swipe or click event, a swipe takes precedence, and a
\* frame whose final blocks end with Open_Palm, Closed_Fist emits no click.
C8_OneDiscreteEventPerFrame ==
    processed =>
        /\ Len(DiscreteEmitted) <= 1
        /\ SwipeTail(LastBlocks) =>
              \A k \in 1..Len(emitted) : emitted[k].gesture # "click"

C8_Witness ==
    /\ processed
    /\ DiscreteEmitted = <<>>
    /\ temporalGestureSubscribers # <<>>
    /\ SwipeTail(LastBlocks)

\* C9: a throwing callback stops nothing: every registered callback is still invoked
\* with everything the frame dispatches, the frame's entry is in the buffer given to
\* detection, the detected event is dispatched and the next animation frame is
\* requested.
C9_ThrowingCallbackIsolated ==
    processed =>
        /\ \A callback \in Members(temporalGestureSubscribers) :
              Delivered(callback) = emitted
        /\ \A callback \in Members(subscribers) :
              Delivered(callback) = <<currentFrameData>>
        /\ Last(DetectBuffer).topGesture = currentFrameData.topGesture
        /\ DiscreteEmitted =
              DetectedEvents(detectTemporalGesture(DetectBuffer, majorityWindowSize,
                                                   maxGapSize))
        /\ animationFrameRef

C9_Witness ==
    /\ processed
    /\ temporalGestureSubscribers = <<"t1", "t2">>
    /\ subscribers = <<"f1", "f2">>
    /\ Len(emitted) = 2
    /\ animationFrameRef

\* C10: a callback whose unsubscribe function was called is invoked by no later frame,
\* and the callbacks still registered are invoked as before.
C10_UnsubscribedNeverInvoked ==
    processed =>
        /\ \A callback \in unsubscribed : Delivered(callback) = <<>>
        /\ \A callback \in Callbacks :
              Delivered(callback) # <<>> => Registered(callback)
        /\ \A callback \in Callbacks :
              Registered(callback) =>
                  Len(Delivered(callback)) =
                      IF callback \in TemporalCallbacks THEN Len(emitted) ELSE 1

C10_Witness ==
    /\ processed
    /\ "t1" \in unsubscribed
    /\ "f1" \in unsubscribed
    /\ Delivered("t2") # <<>>
    /\ Delivered("f2") # <<>>

\* Positions i < j of calls that hand the same argument to two callbacks of one registry.
SameDelivery(i, j) ==
    /\ i < j
    /\ calls[i][2] = calls[j][2]
    /\ (calls[i][1] \in TemporalCallbacks) = (calls[j][1] \in TemporalCallbacks)

\* C11: whatever subscribe and unsubscribe calls were made between frames, a frame
\* hands every event to the callbacks of a registry in the order of their registration.
C11_RegistrationOrder ==
    processed =>
        \A i, j \in 1..Len(calls) :
            SameDelivery(i, j) => <<calls[i][1], calls[j][1]>> \in registeredBefore

\* Both registries hold their callbacks in an order only unsubscribing and subscribing
\* again produces.
C11_Witness ==
    /\ processed
    /\ temporalGestureSubscribers = <<"t2", "t1">>
    /\ subscribers = <<"f2", "f1">>
    /\ unsubscribed = {}
    /\ Len(emitted) = 2

\* C12: an iteration in which the recognizer throws invokes no callback, appends
\* nothing and requests the next animation frame, so the loop goes on.
C12_LoopSurvivesFailedInference ==
    iteration = "throws" =>
        /\ ~processed
        /\ calls = <<>>
        /\ animationFrameRef

\* A subscribe or subscribeToTemporalGestures call that registers a new callback.
SubscribeStep ==
    \/ Len(subscribers') > Len(subscribers)
    \/ Len(temporalGestureSubscribers') > Len(temporalGestureSubscribers)

\* C13: after a failed initialization (model load failure or camera denial) the service
\* is not ready, and a later subscribe or subscribeToTemporalGestures call starts
\* initialization again.
C13_FailedInitializationRetried ==
    /\ [](initFailure # "none" => ~isReady)
    /\ [][(initFailure # "none" /\ SubscribeStep) =>
             (isInitializing' /\ initPc' = "model")]_vars

\* C14: once destroy() has returned, no step of the destroyed service runs inference,
\* processes a frame or invokes a callback, also when destroy() was called while
\* initialization was in progress.
C14_NothingAfterDestroy ==
    ~instance =>
        /\ iteration \in {"none", "stopped"}
        /\ ~processed
        /\ calls = <<>>
        /\ ~animationFrameRef

\* C15: however subscribe and subscribeToTemporalGestures calls interleave with the
\* initialization, at most one initialize() run is in progress, none is in progress or
\* started once isInitialized is set, and at most one processing loop runs.
C15_OneInitializationOneLoop ==
    /\ initsInProgress <= 1
    /\ loops <= 1
    /\ isInitialized => (initsInProgress = 0 /\ initPc = "none" /\ ~isInitializing)

\* Four callbacks registered while the one initialization awaits the video: all but
\* the first call found the initialization in progress.
C15_Witness ==
    /\ initPc = "metadata"
    /\ initsInProgress = 1
    /\ Len(subscribers) = 2
    /\ Len(temporalGestureSubscribers) = 2

\* What a call updateTemporalGestureOptions(options) has to leave in the four options:
\* the value of every defined field, the previous value for every undefined one.
OptionsSetBy(options) ==
    /\ bufferSize' = (IF options.bufferSize = undefined THEN bufferSize ELSE options.bufferSize)
    /\ emaAlpha' = (IF options.emaAlpha = undefined THEN emaAlpha ELSE options.emaAlpha)
    /\ majorityWindowSize' = (IF options.majorityWindowSize = undefined
                              THEN majorityWindowSize ELSE options.majorityWindowSize)
    /\ maxGapSize' = (IF options.maxGapSize = undefined THEN maxGapSize ELSE options.maxGapSize)

\* previous blended with one of the raw positions by weight alpha, to the nearest
\* grid point.
BlendedWith(alpha, previous, current) ==
    \E raw \in OptionsXs :
        LET exact == alpha * raw + (AlphaOne - alpha) * previous
        IN  /\ 2 * (AlphaOne * current - exact) <= AlphaOne
            /\ 2 * (exact - AlphaOne * current) <= AlphaOne

\* A frame step worked with the options size, alpha, window and gap: pushed, the buffer
\* it examined, is the old buffer with one entry appended and one evicted only if that
\* exceeded size; the new palm centre is the old one blended by alpha; the swipe or
\* click emitted is the one detected in pushed with window and gap.
FrameUsed(size, alpha, window, gap, pushed) ==
    /\ Len(pushed) = (IF Len(buffer) + 1 > size THEN Len(buffer) ELSE Len(buffer) + 1)
    /\ (smoothed.palmCenter # null /\ Last(pushed).palmCenter # null) =>
           BlendedWith(alpha, smoothed.palmCenter.x, Last(pushed).palmCenter.x)
    /\ SelectSeq(emitted', IsDiscrete) =
           DetectedEvents(detectTemporalGesture(pushed, window, gap))

\* C16: a call updateTemporalGestureOptions(options) leaves every defined field's value
\* in its option and every other option as it was, nothing else changes the four
\* options, and every frame works with the values they hold when it is processed.
C16_OptionsUsedByNextFrame ==
    /\ [][\A options \in OptionsOptionUpdates :
             updateTemporalGestureOptions(options) => OptionsSetBy(options)]_vars
    /\ [][optionVars' # optionVars =>
             \E options \in OptionsOptionUpdates : OptionsSetBy(options)]_vars
    /\ [][processed' =>
             FrameUsed(bufferSize, emaAlpha, majorityWindowSize, maxGapSize,
                       IF cleared' # <<>> THEN cleared' ELSE buffer')]_vars

\* A frame processed after all three updates, its buffer longer than the constructor's
\* bufferSize allowed.
C16_Witness ==
    /\ processed
    /\ Len(buffer) = 4
    /\ bufferSize = 4
    /\ emaAlpha = AlphaOne
    /\ majorityWindowSize = 5
    /\ maxGapSize = 1

\* C17 as stated: a frame processed after modelAssetPath and numHands were supplied to
\* the existing service works with the supplied values.
C17_RecognizerOptionsChangeable ==
    (processed /\ requested # null) =>
        /\ numHands = requested.numHands
        /\ modelAssetPath = requested.modelAssetPath

\* C17 amended: modelAssetPath and numHands are fixed when the service is constructed;
\* no step changes them, a getInstance call with other values included.
C17_RecognizerOptionsFixed ==
    [][numHands' = numHands /\ modelAssetPath' = modelAssetPath]_vars

\* A frame processed after getInstance was called with another path and numHands.
C17_Witness ==
    /\ processed
    /\ requested # null
    /\ requested.numHands # numHands
    /\ requested.modelAssetPath # modelAssetPath

SmoothedIs(entry) ==
    /\ smoothed.wrist = entry.wrist
    /\ smoothed.palmCenter = entry.palmCenter
    /\ smoothed.thumbTip = entry.thumbTip
    /\ smoothed.indexTip = entry.indexTip

CallsOfThisFrame ==
    /\ \A i \in 1..Len(calls) :
          IF calls[i][1] \in FrameCallbacks
          THEN calls[i][2] = currentFrameData
          ELSE \E k \in 1..Len(emitted) : calls[i][2] = emitted[k]
    /\ \A i, j \in 1..Len(calls) :
          (i < j /\ calls[i][1] \in FrameCallbacks) => calls[j][1] \in FrameCallbacks
    /\ \A i, j \in 1..Len(calls) :
          (i < j /\ calls[j][1] \in TemporalCallbacks /\ IsDiscrete(calls[i][2])) =>
              IsDiscrete(calls[j][2])

\* C19: one loop processes the frames one at a time, and the callback invocations of a
\* frame are all made within the step that processes it, with that frame's events and
\* frame data: none is made by a step that processes no frame, none carries the data
\* of another frame.
C19_CallbacksWithinTheirFrame ==
    /\ loops <= 1
    /\ ~processed => calls = <<>>
    /\ processed => (iteration = "new" /\ CallsOfThisFrame)

\* A frame that delivered a point event and a click to t1 and then its frame data to f1.
C19_Witness ==
    /\ processed
    /\ Len(emitted) = 2
    /\ Len(calls) = 3
    /\ calls[3] = <<"f1", currentFrameData>>

\* C20: a loop iteration that finds the video at the time of the frame processed last
\* runs no inference and no pipeline (nothing is processed, appended, smoothed or
\* delivered, the recorded time stays) and requests the next animation frame.
C20_OncePerVideoFrame ==
    [][iteration' = "same" =>
          /\ ~processed'
          /\ calls' = <<>>
          /\ emitted' = <<>>
          /\ pipelineVars' = pipelineVars
          /\ lastVideoTimeRef' = lastVideoTimeRef
          /\ animationFrameRef'
          /\ isProcessing']_vars

\* Such an iteration, made with entries in the buffer.
C20_Witness ==
    /\ iteration = "same"
    /\ Len(buffer) > 0
    /\ animationFrameRef

\* The service is the one constructed from options, untouched.
FreshFrom(options) ==
    /\ instance
    /\ buffer = <<>>
    /\ subscribers = <<>>
    /\ temporalGestureSubscribers = <<>>
    /\ smoothed = NoSmoothed
    /\ currentFrameData = null
    /\ ~isInitialized /\ ~isInitializing /\ ~isProcessing /\ ~animationFrameRef
    /\ loops = 0
    /\ numHands = OrDefault(options.numHands, DefaultNumHands)
    /\ bufferSize = OrDefault(options.bufferSize, DefaultBufferSize)

\* C21: a getInstance call made while the instance exists returns that service as it
\* is, with its registries, buffer, loop and options, whatever options it is given;
\* only destroy() ends the instance; the first getInstance call after destroy() yields
\* a service constructed from its options, with an empty buffer and no subscribers.
C21_OneInstanceUntilDestroy ==
    /\ [][\A options \in SingletonOptions :
             getInstance(options) =>
                 /\ instance /\ instance'
                 /\ UNCHANGED <<serviceVars, registryVars, optionVars, pipelineVars,
                                modelAssetPath, numHands, loops>>]_vars
    /\ [][(instance /\ ~instance') => destroy]_vars
    /\ [][\A options \in SingletonOptions :
             getInstanceCreates(options) => (~instance /\ FreshFrom(options)')]_vars

\* A service created by getInstance({numHands: 1}) after destroy(), with a subscriber,
\* a running loop and an entry in its buffer, returned again by a later getInstance.
C21_Witness ==
    /\ instance
    /\ numHands = 1
    /\ requested # null
    /\ requested.numHands # numHands
    /\ Len(temporalGestureSubscribers) = 1
    /\ Len(buffer) = 1
    /\ loops = 1

\* The smoothed wrist, palm centre, thumb tip and index tip of a state or an entry.
PointsOf(r) == <<r.wrist, r.palmCenter, r.thumbTip, r.indexTip>>

\* C22 as stated: a frame whose smoothed output for a reference point is null leaves
\* the stored smoothing state of that point as it was.
C22_NullKeepsSmoothingState ==
    [][processed' =>
          \A k \in 1..4 :
              PointsOf(Last(IF cleared' # <<>> THEN cleared' ELSE buffer'))[k] = null =>
                  PointsOf(smoothed')[k] = PointsOf(smoothed)[k]]_vars

\* C22 amended: a frame whose smoothed output for a reference point is null stores null
\* as the smoothing state of that point, and the next non-null sample of the point is
\* stored and buffered as it is, unblended.
C22_NullResetsSmoothingState ==
    /\ [][processed' =>
             PointsOf(smoothed') = PointsOf(Last(IF cleared' # <<>> THEN cleared' ELSE buffer'))]_vars
    /\ [][(processed' /\ smoothed.palmCenter = null /\ smoothed'.palmCenter # null) =>
             smoothed'.palmCenter.x \in OptionsXs]_vars

\* With emaAlpha 0.5: a palm centre at 0.20, a frame without a hand, then a palm centre
\* at 0.50 buffered as 0.50 (blending with 0.20 would give 0.35).
C22_Witness ==
    /\ processed
    /\ emaAlpha = 5
    /\ Len(buffer) >= 3
    /\ buffer[Len(buffer) - 2].palmCenter = [x |-> 4, y |-> 10]
    /\ buffer[Len(buffer) - 1].palmCenter = null
    /\ buffer[Len(buffer)].palmCenter = [x |-> 10, y |-> 10]
    /\ smoothed.palmCenter = [x |-> 10, y |-> 10]

\* The private method named has returned.
Returned(method) == args.method = method /\ returned.done

\* C23: applyEMA returns null for a null current point whatever previous is, and the
\* current point itself when previous is null, for every emaAlpha.
C23_ApplyEMANullCases ==
    Returned("applyEMA") =>
        /\ args.current = null => returned.value = null
        /\ (args.current # null /\ args.previous = null) => returned.value = args.current

\* applyEMA(p, null) returned with emaAlpha 0.3.
C23_Witness ==
    /\ Returned("applyEMA")
    /\ args.emaAlpha = DefaultEmaAlpha
    /\ args.current = [x |-> 7, y |-> 13]
    /\ args.previous = null
    /\ returned.value = [x |-> 7, y |-> 13]

\* pushed ends with the entry of the frame just processed: its smoothed points and
\* its top gesture.
EndsWithFrameEntry(pushed) ==
    /\ Len(pushed) >= 1
    /\ PointsOf(Last(pushed)) = PointsOf(smoothed')
    /\ Last(pushed).topGesture = currentFrameData'.topGesture

\* pushed is the old buffer with one entry more at its tail, less its oldest entry if
\* the old buffer was full.
FifoStep(pushed) ==
    /\ EndsWithFrameEntry(pushed)
    /\ SubSeq(pushed, 1, Len(pushed) - 1) =
           (IF Len(buffer) = bufferSize THEN Tail1(buffer) ELSE buffer)

\* C24: while bufferSize stays as it is the buffer never holds more than bufferSize
\* entries, and the buffer a frame examines is the buffer before it with the frame's
\* entry at the tail and, if that was full, without its oldest entry: so it holds the
\* entries of the latest min(k, bufferSize) frames since it was cleared, in order.
C24_FifoBuffer ==
    /\ [](Len(buffer) <= bufferSize)
    /\ [][processed' => FifoStep(IF cleared' # <<>> THEN cleared' ELSE buffer')]_vars

\* A full buffer after more pointing frames than it holds.
C24_Witness ==
    /\ processed
    /\ Len(buffer) = bufferSize
    /\ pointRun = bufferSize + 1

\* The step is a processFrame call that processed the recognizer result given.
FrameOf(result) ==
    /\ processed'
    /\ AnimationFrame(result) \/ MetadataLoaded(result)

\* pushed is the old buffer with exactly one entry appended, the frame's own, and at
\* most the oldest entry evicted; a frame without landmarks has four null points in
\* its entry, emits no point event and leaves the loop running.
AppendedOnce(result, pushed) ==
    /\ EndsWithFrameEntry(pushed)
    /\ SubSeq(pushed, 1, Len(pushed) - 1) \in {buffer, Tail1(buffer)}
    /\ Len(result.landmarks) = 0 =>
           /\ PointsOf(Last(pushed)) = <<null, null, null, null>>
           /\ SelectSeq(emitted', IsPoint) = <<>>
           /\ animationFrameRef'

\* C25: every processed frame, with or without a hand and with or without a point
\* event, appends its one entry before detection; without landmarks the entry's four
\* points are null, no point event is emitted and the frame completes.
C25_EveryFrameBuffered ==
    [][\A result \in SingletonResults :
          FrameOf(result) =>
              AppendedOnce(result, IF cleared' # <<>> THEN cleared' ELSE buffer')]_vars

\* A Pointing_Up frame without landmarks, buffered with null points after a frame with
\* a hand, and no event emitted.
C25_Witness ==
    /\ processed
    /\ currentFrameData.topGesture # null
    /\ emitted = <<>>
    /\ Len(buffer) >= 2
    /\ Last(buffer).topGesture.categoryName = "Pointing_Up"
    /\ Last(buffer).palmCenter = null
    /\ buffer[Len(buffer) - 1].palmCenter # null

\* The 1-based positions of the window the filter examines for position i of a buffer
\* of length len: i - halfWindow .. i + halfWindow, cut at the buffer ends.
WindowOf(i, len, window) ==
    {j \in 1..len : j >= i - (window \div 2) /\ j <= i + (window \div 2)}

\* The labels of the entries at positions, null for an absent or 'None' gesture.
LabelsAt(buf, positions) == {Normalized(EntryLabel(buf[j])) : j \in positions}

\* C26: the majority filter returns one smoothed label per buffer entry, in buffer
\* order: as many as the buffer has entries (none for the empty buffer), the one at
\* position i being a label of the window around entry i.
C26_OneLabelPerEntry ==
    Returned("applySlidingMajorityFilter") =>
        /\ Len(returned.value) = Len(args.buffer)
        /\ \A i \in 1..Len(args.buffer) :
              returned.value[i].label \in
                  LabelsAt(args.buffer, WindowOf(i, Len(args.buffer), args.majorityWindowSize))

\* The filter returned for a buffer of MaxLen entries with window 5.
C26_Witness ==
    /\ Returned("applySlidingMajorityFilter")
    /\ args.majorityWindowSize = 5
    /\ Len(args.buffer) = MaxLen
    /\ Len(returned.value) = MaxLen
    /\ returned.value[1].label # returned.value[MaxLen].label

\* The window examined for position i of the filter call.
CallWindow(i) == WindowOf(i, Len(args.buffer), args.majorityWindowSize)

\* C27: where every entry of the window examined for position i carries one label,
\* the filter returns that label (null for the absence label) with confidence 1.0,
\* the count of the label being the size of the window, cut at a buffer end or not.
C27_UnanimousWindow ==
    Returned("applySlidingMajorityFilter") =>
        \A i \in 1..Len(args.buffer) :
            Cardinality(LabelsAt(args.buffer, CallWindow(i))) = 1 =>
                /\ returned.value[i].label = Normalized(EntryLabel(args.buffer[i]))
                /\ returned.value[i].count = Cardinality(CallWindow(i))
                /\ returned.value[i].windowSize = Cardinality(CallWindow(i))

\* Two entries without a gesture and two Open_Palm entries under window 3: the windows
\* at both ends are cut to two entries and unanimous, null at one end.
C27_Witness ==
    /\ Returned("applySlidingMajorityFilter")
    /\ args.majorityWindowSize = 3
    /\ Len(args.buffer) = 4
    /\ returned.value[1] = [label |-> NullLabel, count |-> 2, windowSize |-> 2]
    /\ returned.value[4] = [label |-> "Open_Palm", count |-> 2, windowSize |-> 2]

\* C28 as stated: at every position the confidence is the winning count over the
\* configured majority window size.
C28_ConfidenceOverConfiguredSize ==
    Returned("applySlidingMajorityFilter") =>
        \A i \in 1..Len(args.buffer) :
            returned.value[i].windowSize = args.majorityWindowSize

\* The entries of the window examined for position i that carry the label returned.
Winners(i) ==
    {j \in CallWindow(i) : Normalized(EntryLabel(args.buffer[j])) = returned.value[i].label}

\* C28 amended: at every position the confidence is the number of entries of the
\* examined window that carry the returned label, over the number of entries of that
\* window, which is smaller than the configured size near the buffer ends.
C28_ConfidenceOverExaminedWindow ==
    Returned("applySlidingMajorityFilter") =>
        \A i \in 1..Len(args.buffer) :
            /\ returned.value[i].count = Cardinality(Winners(i))
            /\ returned.value[i].windowSize = Cardinality(CallWindow(i))

\* Window 3 on three entries: two entries examined at the first position, three at the
\* second, where the winner holds two of them.
C28_Witness ==
    /\ Returned("applySlidingMajorityFilter")
    /\ args.majorityWindowSize = 3
    /\ Len(args.buffer) = 3
    /\ returned.value[1].windowSize = 2
    /\ returned.value[2].windowSize = 3
    /\ returned.value[2].count = 2

\* The raw labels ('None' for an absent gesture) that reach the highest count in w.
Tied(w) ==
    LET labels == {EntryLabel(w[k]) : k \in 1..Len(w)}
    IN  {l \in labels : \A other \in labels : LabelCount(w, l) >= LabelCount(w, other)}

\* label is a tied label other than 'None' whose average score in w no tied label other
\* than 'None' exceeds (tied labels have one count, so sums compare as averages).
BestTied(w, label) ==
    /\ label \in Tied(w) \ {"None"}
    /\ \A other \in Tied(w) \ {"None"} : LabelScoreSum(w, label) >= LabelScoreSum(w, other)

\* C29: where several labels tie for the highest count in a window and one of them is
\* not 'None', the filter returns a tied label other than 'None' with the highest
\* average score in the window; 'None' does not win the tie.
C29_TieBreak ==
    Returned("applySlidingMajorityFilter") =>
        \A i \in 1..Len(args.buffer) :
            LET positions == CallWindow(i)
                w == SubSeq(args.buffer, CHOOSE a \in positions : \A b \in positions : a <= b,
                            CHOOSE a \in positions : \A b \in positions : a >= b)
            IN  (Cardinality(Tied(w)) > 1 /\ Tied(w) # {"None"}) =>
                    BestTied(w, returned.value[i].label)

\* A window of an entry without a gesture, a Closed_Fist (0.8) and an Open_Palm (0.9):
\* three labels tie and Open_Palm, seen last, is returned.
C29_Witness ==
    /\ Returned("applySlidingMajorityFilter")
    /\ args.majorityWindowSize = 3
    /\ Len(args.buffer) = 3
    /\ args.buffer[1].topGesture = null
    /\ EntryLabel(args.buffer[2]) = "Closed_Fist"
    /\ EntryLabel(args.buffer[3]) = "Open_Palm"
    /\ returned.value[2].label = "Open_Palm"

\* Scores given to the 'None' gesture that replaces a missing top gesture.
NoneScores == {0, 5, 9}

\* buf with every missing top gesture replaced by the gesture 'None' of score s.
WithNoneFor(buf, s) ==
    [k \in 1..Len(buf) |->
        IF buf[k].topGesture = null
        THEN [buf[k] EXCEPT !.topGesture = Gesture("None", s)]
        ELSE buf[k]]

\* C30: a missing top gesture and the label 'None' are one value in the pipeline:
\* replacing every entry without a top gesture by an entry whose top gesture is 'None',
\* with any score, leaves the smoothed labels, the blocks, the detected temporal gesture
\* and the point events as they were.
C30_AbsentIsNone ==
    \A s \in NoneScores :
        /\ Returned("applySlidingMajorityFilter") =>
              /\ applySlidingMajorityFilter(WithNoneFor(args.buffer, s),
                                            args.majorityWindowSize) = returned.value
              /\ FinalBlocks(WithNoneFor(args.buffer, s), args.majorityWindowSize,
                             DefaultMaxGapSize)
                 = FinalBlocks(args.buffer, args.majorityWindowSize, DefaultMaxGapSize)
        /\ Returned("detectTemporalGesture") =>
              detectTemporalGesture(WithNoneFor(args.buffer, s), args.majorityWindowSize,
                                    args.maxGapSize) = returned.value
        /\ Returned("applyEMA") =>
              PointEvents(Gesture("None", s), returned.value) = PointEvents(null, returned.value)

\* An entry without a top gesture ties with a Closed_Fist entry of score 0.8, below the
\* score a replacing 'None' can carry, and Closed_Fist is the smoothed label.
C30_Witness ==
    /\ Returned("applySlidingMajorityFilter")
    /\ Len(args.buffer) = 2
    /\ args.buffer[1].topGesture = null
    /\ EntryLabel(args.buffer[2]) = "Closed_Fist"
    /\ returned.value[1].label = "Closed_Fist"

\* blocks cover the indices 0..n-1 in ascending order, without gap or overlap.
Partitions(blocks, n) ==
    /\ Len(blocks) > 0
    /\ blocks[1].start = 0
    /\ Last(blocks).end = n - 1
    /\ \A k \in 1..Len(blocks) :
          /\ blocks[k].start <= blocks[k].end
          /\ k > 1 => blocks[k].start = blocks[k - 1].end + 1

\* C31: for a non-empty sequence of n smoothed labels compressSmoothedLabelsToBlocks
\* returns blocks that partition 0..n-1 and are maximal runs: every index of a block
\* carries the block's label and adjacent blocks differ in label.
C31_CompressPartitionsIntoRuns ==
    (Returned("compressSmoothedLabelsToBlocks") /\ Len(args.smoothedLabels) > 0) =>
        /\ Partitions(returned.value, Len(args.smoothedLabels))
        /\ \A k \in 1..Len(returned.value) :
              /\ \A index \in returned.value[k].start..returned.value[k].end :
                    args.smoothedLabels[index + 1].label = returned.value[k].gesture
              /\ k > 1 => returned.value[k].gesture # returned.value[k - 1].gesture

\* Labels of the longest sequence compressed into three blocks, one of two entries.
C31_Witness ==
    /\ Returned("compressSmoothedLabelsToBlocks")
    /\ Len(args.smoothedLabels) = MaxLen
    /\ Len(returned.value) = 3

BlockLength(block) == block.end - block.start + 1

\* A null block short enough for mergeTinyGaps to remove.
IsGap(block, gap) == ~isNonNone(block.gesture) /\ BlockLength(block) <= gap

\* C32: mergeTinyGaps returns no more blocks than it was given, and every null block
\* longer than maxGapSize is in its output with the same start and end.
C32_GapMergeKeepsLongNullBlocks ==
    Returned("mergeTinyGaps") =>
        /\ Len(returned.value) <= Len(args.blocks)
        /\ \A k \in 1..Len(args.blocks) :
              (~isNonNone(args.blocks[k].gesture)
                 /\ BlockLength(args.blocks[k]) > args.maxGapSize) =>
                    \E j \in 1..Len(returned.value) : returned.value[j] = args.blocks[k]

\* A null block of two entries, longer than maxGapSize 1, kept beside another block.
C32_Witness ==
    /\ Returned("mergeTinyGaps")
    /\ args.maxGapSize = 1
    /\ Len(args.blocks) > 1
    /\ \E k \in 1..Len(args.blocks) :
          /\ args.blocks[k].gesture = NullLabel
          /\ BlockLength(args.blocks[k]) = 2
          /\ \E j \in 1..Len(returned.value) : returned.value[j] = args.blocks[k]

\* C33: mergeTinyGaps extends the end of the block before a gap over the gap when
\* that block is not null (so a gap between two non-null blocks goes to the one before
\* it and the one after it keeps its start), extends the start of the following
\* non-null block over a gap that nothing precedes, drops a gap with no non-null
\* neighbour, and shortens or removes no non-null block.
C33_GapGoesToPrecedingBlock ==
    Returned("mergeTinyGaps") =>
        \A k \in 1..Len(args.blocks) :
            LET block == args.blocks[k]
                gap == args.maxGapSize
            IN  /\ (IsGap(block, gap) /\ k > 1 /\ isNonNone(args.blocks[k - 1].gesture)) =>
                      /\ \E j \in 1..Len(returned.value) :
                            /\ returned.value[j].gesture = args.blocks[k - 1].gesture
                            /\ returned.value[j].start <= args.blocks[k - 1].start
                            /\ returned.value[j].end = block.end
                      /\ k < Len(args.blocks) =>
                            \E j \in 1..Len(returned.value) :
                                /\ returned.value[j].gesture = args.blocks[k + 1].gesture
                                /\ returned.value[j].start = args.blocks[k + 1].start
                /\ (IsGap(block, gap) /\ k = 1 /\ Len(args.blocks) > 1
                       /\ isNonNone(args.blocks[2].gesture)) =>
                      /\ returned.value[1].gesture = args.blocks[2].gesture
                      /\ returned.value[1].start = block.start
                      /\ returned.value[1].end >= args.blocks[2].end
                /\ (IsGap(block, gap) /\ Len(args.blocks) = 1) => returned.value = <<>>
                /\ isNonNone(block.gesture) =>
                      \E j \in 1..Len(returned.value) :
                          /\ returned.value[j].gesture = block.gesture
                          /\ returned.value[j].start <= block.start
                          /\ returned.value[j].end >= block.end

\* A gap between two non-null blocks: the block before it now ends where the gap
\* ended, the block after it is unchanged.
C33_Witness ==
    /\ Returned("mergeTinyGaps")
    /\ Len(args.blocks) = 3
    /\ IsGap(args.blocks[2], args.maxGapSize)
    /\ Len(returned.value) = 2
    /\ returned.value[1].end = args.blocks[2].end
    /\ returned.value[2] = args.blocks[3]

SameLabel(a, b) == Normalized(a.gesture) = Normalized(b.gesture)

\* C34: the block list mergeConsecutiveSameGestures returns for the gap-merged blocks
\* of a buffer has no two adjacent blocks of one normalized label: adjacent blocks of
\* one label are replaced by one block from the start of the earlier to the end of
\* the later.
C34_NoAdjacentSameLabel ==
    Returned("mergeConsecutiveSameGestures") =>
        /\ \A j \in 2..Len(returned.value) :
              ~SameLabel(returned.value[j - 1], returned.value[j])
        /\ \A k \in 2..Len(args.blocks) :
              SameLabel(args.blocks[k - 1], args.blocks[k]) =>
                  \E j \in 1..Len(returned.value) :
                      /\ SameLabel(returned.value[j], args.blocks[k])
                      /\ returned.value[j].start <= args.blocks[k - 1].start
                      /\ returned.value[j].end >= args.blocks[k].end

\* Two blocks of one label left adjacent by the removal of the gap between them,
\* returned as one block.
C34_Witness ==
    /\ Returned("mergeConsecutiveSameGestures")
    /\ Len(args.blocks) = 2
    /\ SameLabel(args.blocks[1], args.blocks[2])
    /\ returned.value = <<[args.blocks[1] EXCEPT !.end = args.blocks[2].end]>>

\* The last blocks carry the labels of sequence, in order, null and 'None' being one.
TailCarries(blocks, sequence) ==
    \A k \in 1..Len(sequence) :
        Normalized(blocks[Len(blocks) - Len(sequence) + k].gesture) = Normalized(sequence[k])

\* C36: matchGestureSequence returns false when there are fewer blocks than elements
\* of the sequence, and otherwise returns true exactly when the last blocks carry the
\* labels of the sequence in order; blocks before them do not matter, a block after
\* them makes the match fail.
C36_MatchAnchoredAtTail ==
    Returned("matchGestureSequence") =>
        IF Len(args.blocks) < Len(args.sequence)
        THEN returned.value = FALSE
        ELSE returned.value = TailCarries(args.blocks, args.sequence)

\* The swipe signature matched behind a leading block that is not part of it.
C36_Witness ==
    /\ Returned("matchGestureSequence")
    /\ args.sequence = SwipeSequence
    /\ Len(args.blocks) = 3
    /\ returned.value = TRUE

\* The blocks detectTemporalGesture gives to the matcher in the call.
CallBlocks == FinalBlocks(args.buffer, args.majorityWindowSize, args.maxGapSize)

\* C35 as stated: for every non-empty buffer the final block list partitions the
\* indices of the buffer.
C35_FinalBlocksPartition ==
    (Returned("detectTemporalGesture") /\ Len(args.buffer) > 0) =>
        Partitions(CallBlocks, Len(args.buffer))

\* The buffer has at most maxGapSize entries and every smoothed label of it is null.
OnlyAGap ==
    /\ Len(args.buffer) <= args.maxGapSize
    /\ \A index \in 1..Len(args.buffer) :
          applySlidingMajorityFilter(args.buffer, args.majorityWindowSize)[index].label
              = NullLabel

\* C35 amended: for every non-empty buffer the final block list partitions the indices
\* of the buffer, unless the buffer has at most maxGapSize entries and all its smoothed
\* labels are null: then its only block is a gap with no neighbour, mergeTinyGaps
\* drops it and the final list is empty.
C35_FinalBlocksPartitionUnlessOnlyAGap ==
    (Returned("detectTemporalGesture") /\ Len(args.buffer) > 0) =>
        IF OnlyAGap THEN CallBlocks = <<>>
        ELSE Partitions(CallBlocks, Len(args.buffer))

\* A buffer of the longest length whose gap of two null labels went to the block
\* before it: two final blocks, Open_Palm over three indices and Closed_Fist.
C35_Witness ==
    /\ Returned("detectTemporalGesture")
    /\ Len(args.buffer) = 4
    /\ CallBlocks = <<[gesture |-> "Open_Palm", start |-> 0, end |-> 2],
                      [gesture |-> "Closed_Fist", start |-> 3, end |-> 3]>>

IsSwipe(gesture) == gesture \in {"swipe_left", "swipe_right"}

\* C38: detectTemporalGesture returns a swipe only when the last final block is a
\* Closed_Fist block of at least two buffer entries and both the entry at that block's
\* start and the last entry of the buffer have a palm centre.
C38_SwipeNeedsTwoPalmCentres ==
    (Returned("detectTemporalGesture") /\ IsSwipe(returned.value)) =>
        /\ Last(CallBlocks).gesture = "Closed_Fist"
        /\ Last(CallBlocks).end - Last(CallBlocks).start >= 1
        /\ args.buffer[Last(CallBlocks).start + 1].palmCenter # null
        /\ Last(args.buffer).palmCenter # null

\* A swipe over a Closed_Fist block of three entries, the middle one without a palm
\* centre.
C38_Witness ==
    /\ Returned("detectTemporalGesture")
    /\ returned.value = "swipe_left"
    /\ Len(args.buffer) = 4
    /\ Last(CallBlocks).start = 1
    /\ args.buffer[3].palmCenter = null

\* C37: the frame processed next after a frame that emitted a swipe or a click emits
\* neither: it is detected on a buffer of its own entry alone, which stays.
C37_NoDiscreteEventOnNextFrame ==
    [][(discreteLast /\ processed') =>
          /\ DiscreteEmitted' = <<>>
          /\ ~discreteLast'
          /\ cleared' = <<>>
          /\ Len(buffer') <= 1]_vars

\* Such a frame: with room for three entries or more the buffer holds one entry, whose
\* palm centre is a blend with the frame before, the one whose swipe emptied it.
C37_Witness ==
    /\ processed
    /\ ~discreteLast
    /\ bufferSize >= 3
    /\ emaAlpha = 5
    /\ Len(buffer) = 1
    /\ buffer[1].palmCenter # null
    /\ buffer[1].palmCenter.x \notin OptionsXs
    /\ buffer[1].topGesture.categoryName = "Closed_Fist"

\* The place of an invocation in the order of a frame: point event, swipe or click,
\* frame data.
DeliveryRank(call) ==
    IF call[1] \in FrameCallbacks THEN 2
    ELSE IF IsPoint(call[2]) THEN 0
    ELSE 1

\* C39: within one processed frame the temporal subscribers receive the point event
\* first, then the swipe or click, and the frame subscribers are notified only after
\* both.
C39_DeliveryOrder ==
    \A i, j \in 1..Len(calls) :
        i < j => DeliveryRank(calls[i]) <= DeliveryRank(calls[j])

\* A frame that emitted a point event and a click: t1 received the point event, then
\* the click, and f1 the frame data after them.
C39_Witness ==
    /\ processed
    /\ Len(calls) = 3
    /\ calls[1][1] = "t1" /\ IsPoint(calls[1][2])
    /\ calls[2][1] = "t1" /\ calls[2][2].gesture = "click"
    /\ calls[3][1] = "f1"

\* C40 as stated: callbacks are invoked only while isReady() returns true.  During the
\* callbacks of a step isInitialized has the value it had before the step (initialize
\* sets it after startProcessing has returned) and isProcessing the value processFrame
\* leaves.
C40_CallbacksOnlyWhenReady ==
    [][calls' # <<>> => (isInitialized /\ isProcessing')]_vars

============================================================================
